---- MODULE Spec2Model ----
(***************************************************************************)
(* A model of memtrace_ext.cpp: the partial-use hash table (PartialUses),  *)
(* the per-address-space live-writer index (UdState), the use-def builder  *)
(* (Ud), the persisted graph (MmVector files, UdBase::Load) and the trace  *)
(* reader's seek (TraceMm::SeekInsn).                                      *)
(*                                                                         *)
(* Words.  The source is generic over the word type W (uint32_t or        *)
(* uint64_t).  The model keeps W's modular arithmetic but scales the word  *)
(* down: WMax stands for std::numeric_limits<W>::max() and every W-typed   *)
(* sum is taken modulo WMax + 1.                                           *)
(*                                                                         *)
(* Indices.  The source's vectors are 0-based; the model keeps the         *)
(* source's 0-based index VALUES (defIndex, useIndex, codeIndex, ...) and  *)
(* reads element i of a vector v as v[i + 1].                              *)
(***************************************************************************)
EXTENDS Integers, Sequences, FiniteSets, TLC

VARIABLES
    memState_,   \* Ud::memState_ : UdState<W>
    regState_,   \* Ud::regState_ : UdState<W>
    readOf,      \* history: for each address space, the read range of every use
    ret,         \* history: the last AddDefs call, its return and the state before it
    puTable,     \* a PartialUses<W> exercised on its own
    puLast,      \* history: key -> the value last assigned through operator[]
    trace_,      \* Ud::trace_ : the InsnInTrace records
    code_,       \* Ud::code_ : the InsnInCode records
    text_,       \* Ud::text_ : the opcode bytes
    entryIndex_, \* TraceMm::entryIndex_ : the records visited so far
    phase,       \* where the build is: building, complete, failed, closed, loaded, absent
    header_,     \* the trace header: [endianness, wordSize, machineType]
    host,        \* kHostEndianness of the process
    disk,        \* the files of the persisted graph
    loaded,      \* the Ud that UdBase::Load returned
    traceFile,   \* the trace file given to TraceMmBase::Load: [magic, size, headerLength]
    data_,       \* TraceMm: the records of the mapped trace file after its header
    length_,     \* TraceMm::length_ : the size of the mapped trace file in bytes
    cur_,        \* TraceMm::cur_ as a byte offset from the start of the file
    out,         \* the last call made on the reader and what it returned or threw
    vec          \* an MmVector<T> exercised on its own, and its file

udVars == <<memState_, regState_>>
puVars == <<puTable, puLast>>
buildVars == <<trace_, code_, text_, entryIndex_, phase, header_, host, disk, loaded>>
readerVars == <<traceFile, data_, length_, cur_, out>>
vars == <<memState_, regState_, readOf, ret, puTable, puLast, trace_, code_, text_,
          entryIndex_, phase, header_, host, disk, loaded, traceFile, data_,
          length_, cur_, out, vec>>

----------------------------------------------------------------------------
(* Bounds of the model.                                                    *)

\* std::numeric_limits<W>::max() of the scaled-down word.
WMax == 39
\* Largest end address of the in-range calls the UdState harness makes.
MaxEnd == 3
\* Most calls (AddDefs, and AddUses that emit a use) the harness makes.
MaxOps == 3
\* The builder reads at most MaxRecords records, SpecPersist MaxPersistRecords.
MaxRecords == 3
MaxPersistRecords == 2
\* The insnSeq values of the records are 0 .. MaxInsnSeq.
MaxInsnSeq == 1
\* A trace file holds at most MaxFileRecords records; SeekInsn is called with
\* 0 .. MaxSeekIndex.
MaxFileRecords == 2
MaxSeekIndex == 2
\* The table harness sets at most MaxTableKeys keys in ascending order.
MaxTableKeys == 64
\* The files given to Load have at most MaxFileSize bytes and a header length
\* field of at most MaxHeaderLength.
MaxFileSize == 17
MaxHeaderLength == 17
\* The overlap harness makes at most MaxStores 1-byte stores and then a store
\* that starts at 0 .. MaxSpanStart.
MaxStores == 34
MaxSpanStart == 1
\* The streams built from hold at most MaxStreamRecords records.
MaxStreamRecords == 3
----------------------------------------------------------------------------
(* Program constants.                                                      *)

\* static_cast<std::uint32_t>(-1), the first field of an empty slot.
kEmpty == -1
\* The table size PartialUses::Init gives a created table.
kInitialTableSize == 11
\* UdState::AddDefs : kMaxAffectedCount.
kMaxAffectedCount == 32
\* std::numeric_limits<std::uint32_t>::max(), written -1 as kEmpty is.
kUint32Max == -1
\* std::numeric_limits<size_t>::max(): the value that ++ takes to 0.
kSizeMax == -1

Mod == WMax + 1

\* W-typed addition (wraps like the unsigned type).
WAdd(a, b) == (a + b) % Mod

Min(S) == CHOOSE x \in S : \A y \in S : x <= y
Max(S) == CHOOSE x \in S : \A y \in S : x >= y
MinOf(a, b) == IF a < b THEN a ELSE b
MaxOf(a, b) == IF a > b THEN a ELSE b

\* struct Def<W>.
Def(s, e) == [startAddr |-> s, endAddr |-> e]

----------------------------------------------------------------------------
(* GetFirstPrimeGreaterThanOrEqualTo.  The static vector `primes` holds    *)
(* the odd primes 3, 5, 7, ... in order and is extended until its last     *)
(* element exceeds sqrt(value); a candidate is accepted when no element    *)
(* of `primes` that is <= sqrt(value) divides it.                          *)

\* An element of the static vector `primes`.
InPrimes(p) == p >= 3 /\ p % 2 = 1 /\ \A d \in 3..p : (d * d <= p) => p % d # 0

\* The inner for-loop: some primes[primeIndex] <= valueSqrt divides value.
HasPrimeFactor(value) ==
    \E p \in 3..value : p * p <= value /\ InPrimes(p) /\ value % p = 0

RECURSIVE NextCandidate(_)
NextCandidate(value) ==
    IF ~HasPrimeFactor(value) THEN value ELSE NextCandidate(value + 2)

\* value |= 1, then the while(true) loop.
GetFirstPrimeGreaterThanOrEqualTo(value) ==
    NextCandidate(IF value % 2 = 0 THEN value + 1 ELSE value)

----------------------------------------------------------------------------
(* PartialUses<W>: an open-addressed table in an MmVector<PartialUse<W>>.  *)
(* A table is [entries, load_, maxLoad_]; entries[i + 1] is slot i, a      *)
(* PartialUse [first, second].                                             *)

\* useIndex % hashTableSize on the 32-bit value; kEmpty stands for 2^32 - 1.
HashOf(useIndex, hashTableSize) ==
    IF useIndex = kEmpty
    THEN LET r == ((65536 % hashTableSize) * (65536 % hashTableSize)) % hashTableSize
         IN (r + hashTableSize - 1) % hashTableSize
    ELSE useIndex % hashTableSize

\* ScanPartialUses over slots from .. from + count - 1: the first slot whose
\* key is useIndex or kEmpty, as a slot number; -1 stands for nullptr.
ScanPartialUses(entries, from, count, useIndex) ==
    LET hits == {i \in from..(from + count - 1) :
                    entries[i + 1].first = useIndex \/ entries[i + 1].first = kEmpty}
    IN IF hits = {} THEN -1 ELSE Min(hits)

\* FindPartialUse: probe from the hash slot to the end, then from slot 0.
FindPartialUse(entries, hashTableSize, useIndex) ==
    LET entryIndex == HashOf(useIndex, hashTableSize)
        use == ScanPartialUses(entries, entryIndex, hashTableSize - entryIndex, useIndex)
    IN IF use # -1 THEN use ELSE ScanPartialUses(entries, 0, entryIndex, useIndex)

\* A value-initialised PartialUse whose key was then set to -1.
EmptySlot == [first |-> kEmpty, second |-> Def(0, 0)]

\* MmVector::resize(n) on the entries: shrink, or append value-initialised slots.
ResizeEntries(entries, n) ==
    [i \in 1..n |-> IF i <= Len(entries) THEN entries[i]
                    ELSE [first |-> 0, second |-> Def(0, 0)]]

\* The refill loop of PartialUses::reserve: old slots 0 .. oldSize - 1 in order.
RECURSIVE Refill(_, _, _, _)
Refill(entries, newSize, oldEntries, oldEntryIndex) ==
    IF oldEntryIndex >= Len(oldEntries) THEN entries
    ELSE LET oldEntry == oldEntries[oldEntryIndex + 1]
         IN IF oldEntry.first = kEmpty
            THEN Refill(entries, newSize, oldEntries, oldEntryIndex + 1)
            ELSE LET slot == FindPartialUse(entries, newSize, oldEntry.first)
                 IN Refill([entries EXCEPT ![slot + 1] = oldEntry],
                           newSize, oldEntries, oldEntryIndex + 1)

\* PartialUses::reserve(n).
PUReserve(p, n) ==
    LET newSize == GetFirstPrimeGreaterThanOrEqualTo(n * 2)
        oldEntries == p.entries
        resized == ResizeEntries(p.entries, newSize)
        cleared == [i \in 1..newSize |-> [resized[i] EXCEPT !.first = kEmpty]]
    IN [entries |-> Refill(cleared, newSize, oldEntries, 0),
        load_ |-> p.load_,
        maxLoad_ |-> newSize \div 2]

\* PartialUses::Init in a create mode: resize(11), every key -1, maxLoad_ = 5.
PUInitCreated ==
    [entries |-> [i \in 1..kInitialTableSize |-> EmptySlot],
     load_ |-> 0,
     maxLoad_ |-> kInitialTableSize \div 2]

\* operator[] that never calls reserve.
PUSet_NoReserve(p, useIndex, def) ==
    LET slot1 == FindPartialUse(p.entries, Len(p.entries), useIndex)
    IN IF p.entries[slot1 + 1].first = useIndex
       THEN [p EXCEPT !.entries[slot1 + 1].second = def]
       ELSE [p EXCEPT !.entries[slot1 + 1].first = useIndex,
                      !.entries[slot1 + 1].second = def,
                      !.load_ = p.load_ + 1]

\* partialUses[useIndex] = def: operator[] followed by the assignment to the
\* Def& it returns.
PUSet(p, useIndex, def) ==
    LET slot1 == FindPartialUse(p.entries, Len(p.entries), useIndex)
    IN IF p.entries[slot1 + 1].first = useIndex
       THEN [p EXCEPT !.entries[slot1 + 1].second = def]
       ELSE LET p1 == [p EXCEPT !.entries[slot1 + 1].first = useIndex,
                                !.load_ = p.load_ + 1]
            IN IF p1.load_ <= p1.maxLoad_
               THEN [p1 EXCEPT !.entries[slot1 + 1].second = def]
               ELSE LET p2 == PUReserve(p1, p1.load_ * 2)
                        slot2 == FindPartialUse(p2.entries, Len(p2.entries), useIndex)
                    IN [p2 EXCEPT !.entries[slot2 + 1].second = def]

PUTableInit == puTable = PUInitCreated

\* PartialUses::find: the slot number, or -1 for nullptr.
PUFind(p, useIndex) ==
    LET slot == FindPartialUse(p.entries, Len(p.entries), useIndex)
    IN IF p.entries[slot + 1].first = useIndex THEN slot ELSE -1

----------------------------------------------------------------------------
(* UdState<W>: [uses_, defs_, partialUses_, addressSpace_].  uses_ is a    *)
(* sequence of def indices, defs_ a sequence of Def, addressSpace_ the     *)
(* std::map endAddr -> EntryValue [startAddr, defIndex] as a function on   *)
(* its set of keys.                                                        *)

\* UdState::Init in a create mode: three empty vectors, the partial-use
\* table initialised and then reserve(expectedPartialUseCount).
UdStateInit(expectedPartialUseCount) ==
    [uses_ |-> <<>>,
     defs_ |-> <<>>,
     partialUses_ |-> PUReserve(PUInitCreated, expectedPartialUseCount),
     addressSpace_ |-> <<>>]

\* addressSpace_[key] = value of std::map: insert, or overwrite the mapped value.
MapPut(m, key, value) ==
    [k \in (DOMAIN m) \cup {key} |-> IF k = key THEN value ELSE m[k]]

\* addressSpace_.erase(first, last) for the keys in `keys`.
MapErase(m, keys) == [k \in (DOMAIN m) \ keys |-> m[k]]

\* The iteration `it = lower_bound(from); it != end() && it->second.startAddr
\* < endAddr; ++it`: the keys visited, in ascending order.
RECURSIVE Affected(_, _, _)
Affected(m, from, endAddr) ==
    LET ks == {k \in DOMAIN m : k >= from}
    IN IF ks = {} THEN <<>>
       ELSE LET k == Min(ks)
            IN IF m[k].startAddr < endAddr
               THEN <<k>> \o Affected(m, k + 1, endAddr)
               ELSE <<>>

\* AddUse with `&&` for `||` in the test that decides on a partial-use entry.
AddUse_AndTest(s, key, startAddr, endAddr) ==
    LET useIndex == Len(s.uses_)
        entry == s.addressSpace_[key]
        def == s.defs_[entry.defIndex + 1]
        maxStartAddr == MaxOf(startAddr, entry.startAddr)
        minEndAddr == MinOf(endAddr, key)
        pushed == [s EXCEPT !.uses_ = Append(s.uses_, entry.defIndex)]
    IN IF def.startAddr # maxStartAddr /\ def.endAddr # minEndAddr
       THEN [pushed EXCEPT !.partialUses_ =
                PUSet(s.partialUses_, useIndex, Def(maxStartAddr, minEndAddr))]
       ELSE pushed

\* AddUse intersecting the read with the def's range, not the live interval.
AddUse_DefRange(s, key, startAddr, endAddr) ==
    LET useIndex == Len(s.uses_)
        entry == s.addressSpace_[key]
        def == s.defs_[entry.defIndex + 1]
        maxStartAddr == MaxOf(startAddr, def.startAddr)
        minEndAddr == MinOf(endAddr, def.endAddr)
        pushed == [s EXCEPT !.uses_ = Append(s.uses_, entry.defIndex)]
    IN IF def.startAddr # maxStartAddr \/ def.endAddr # minEndAddr
       THEN [pushed EXCEPT !.partialUses_ =
                PUSet(s.partialUses_, useIndex, Def(maxStartAddr, minEndAddr))]
       ELSE pushed

\* AddUse writing a partial-use entry for every use it appends.
AddUse_AlwaysEntry(s, key, startAddr, endAddr) ==
    LET useIndex == Len(s.uses_)
        entry == s.addressSpace_[key]
        maxStartAddr == MaxOf(startAddr, entry.startAddr)
        minEndAddr == MinOf(endAddr, key)
        pushed == [s EXCEPT !.uses_ = Append(s.uses_, entry.defIndex)]
    IN [pushed EXCEPT !.partialUses_ =
           PUSet(s.partialUses_, useIndex, Def(maxStartAddr, minEndAddr))]

\* One iteration of the loop body of UdState::AddUses for the map entry at key.
AddUse(s, key, startAddr, endAddr) ==
    LET useIndex == Len(s.uses_)
        entry == s.addressSpace_[key]
        def == s.defs_[entry.defIndex + 1]
        maxStartAddr == MaxOf(startAddr, entry.startAddr)
        minEndAddr == MinOf(endAddr, key)
        pushed == [s EXCEPT !.uses_ = Append(s.uses_, entry.defIndex)]
    IN IF def.startAddr # maxStartAddr \/ def.endAddr # minEndAddr
       THEN [pushed EXCEPT !.partialUses_ =
                PUSet(s.partialUses_, useIndex, Def(maxStartAddr, minEndAddr))]
       ELSE pushed

RECURSIVE AddUsesLoop(_, _, _, _, _)
AddUsesLoop(s, keys, i, startAddr, endAddr) ==
    IF i > Len(keys) THEN s
    ELSE AddUsesLoop(AddUse(s, keys[i], startAddr, endAddr), keys, i + 1,
                     startAddr, endAddr)

\* UdState::AddUses(startAddr, size).
AddUses(s, startAddr, size) ==
    LET endAddr == WAdd(startAddr, size)
        keys == Affected(s.addressSpace_, WAdd(startAddr, 1), endAddr)
    IN AddUsesLoop(s, keys, 1, startAddr, endAddr)

\* UdState::AddDef(startAddr, endAddr).
AddDef(s, startAddr, endAddr) ==
    LET defIndex == Len(s.defs_)
    IN [s EXCEPT !.defs_ = Append(s.defs_, Def(startAddr, endAddr)),
                 !.addressSpace_ = MapPut(s.addressSpace_, endAddr,
                                     [startAddr |-> startAddr, defIndex |-> defIndex])]

\* Reinsert that loses the residue of a left overlap.
Reinsert_DropLeft(m, entry, startAddr, endAddr) ==
    IF startAddr <= entry.startAddr
    THEN m
    ELSE IF endAddr < entry.endAddr
         THEN MapPut(MapPut(m, startAddr,
                       [startAddr |-> entry.startAddr, defIndex |-> entry.defIndex]),
                     entry.endAddr,
                     [startAddr |-> endAddr, defIndex |-> entry.defIndex])
         ELSE MapPut(m, startAddr,
                     [startAddr |-> entry.startAddr, defIndex |-> entry.defIndex])

\* The residue(s) of one affected entry, put back into the map (the body of
\* the second for-loop of UdState::AddDefs).
Reinsert(m, entry, startAddr, endAddr) ==
    LET entryStartAddr == entry.startAddr
        entryEndAddr == entry.endAddr
        entryDefIndex == entry.defIndex
    IN IF startAddr <= entryStartAddr
       THEN IF endAddr < entryEndAddr
            THEN \* Left overlap.
                 MapPut(m, entryEndAddr,
                        [startAddr |-> endAddr, defIndex |-> entryDefIndex])
            ELSE \* Outer overlap.
                 m
       ELSE IF endAddr < entryEndAddr
            THEN \* Inner overlap.
                 MapPut(MapPut(m, startAddr,
                          [startAddr |-> entryStartAddr, defIndex |-> entryDefIndex]),
                        entryEndAddr,
                        [startAddr |-> endAddr, defIndex |-> entryDefIndex])
            ELSE \* Right overlap.
                 MapPut(m, startAddr,
                        [startAddr |-> entryStartAddr, defIndex |-> entryDefIndex])

RECURSIVE ReinsertLoop(_, _, _, _, _)
ReinsertLoop(m, affected, affectedIndex, startAddr, endAddr) ==
    IF affectedIndex > Len(affected) THEN m
    ELSE ReinsertLoop(Reinsert(m, affected[affectedIndex], startAddr, endAddr),
                      affected, affectedIndex + 1, startAddr, endAddr)

\* AddDefs with `>=` for `>` in the test of affectedCount.
AddDefs_LimitInclusive(s, startAddr, size) ==
    LET endAddr == WAdd(startAddr, size)
        keys == Affected(s.addressSpace_, WAdd(startAddr, 1), endAddr)
        affectedCount == Len(keys)
        affected == [i \in 1..affectedCount |->
                        [endAddr |-> keys[i],
                         startAddr |-> s.addressSpace_[keys[i]].startAddr,
                         defIndex |-> s.addressSpace_[keys[i]].defIndex]]
        erased == MapErase(s.addressSpace_, {keys[i] : i \in 1..affectedCount})
        residues == ReinsertLoop(erased, affected, 1, startAddr, endAddr)
    IN IF affectedCount >= kMaxAffectedCount
       THEN [err |-> TRUE, state |-> s]
       ELSE [err |-> FALSE,
             state |-> AddDef([s EXCEPT !.addressSpace_ = residues],
                              startAddr, endAddr)]

\* AddDefs that erases the affected intervals before it tests their number.
AddDefs_EraseFirst(s, startAddr, size) ==
    LET endAddr == WAdd(startAddr, size)
        keys == Affected(s.addressSpace_, WAdd(startAddr, 1), endAddr)
        affectedCount == Len(keys)
        affected == [i \in 1..affectedCount |->
                        [endAddr |-> keys[i],
                         startAddr |-> s.addressSpace_[keys[i]].startAddr,
                         defIndex |-> s.addressSpace_[keys[i]].defIndex]]
        erased == MapErase(s.addressSpace_, {keys[i] : i \in 1..affectedCount})
        residues == ReinsertLoop(erased, affected, 1, startAddr, endAddr)
    IN IF affectedCount > kMaxAffectedCount
       THEN [err |-> TRUE, state |-> [s EXCEPT !.addressSpace_ = erased]]
       ELSE [err |-> FALSE,
             state |-> AddDef([s EXCEPT !.addressSpace_ = residues],
                              startAddr, endAddr)]

\* UdState::AddDefs(startAddr, size): [err, state]; err = TRUE stands for the
\* -EINVAL return, which leaves the state as it was.
AddDefs(s, startAddr, size) ==
    LET endAddr == WAdd(startAddr, size)
        keys == Affected(s.addressSpace_, WAdd(startAddr, 1), endAddr)
        affectedCount == Len(keys)
        affected == [i \in 1..affectedCount |->
                        [endAddr |-> keys[i],
                         startAddr |-> s.addressSpace_[keys[i]].startAddr,
                         defIndex |-> s.addressSpace_[keys[i]].defIndex]]
        erased == MapErase(s.addressSpace_, {keys[i] : i \in 1..affectedCount})
        residues == ReinsertLoop(erased, affected, 1, startAddr, endAddr)
    IN IF affectedCount > kMaxAffectedCount
       THEN [err |-> TRUE, state |-> s]
       ELSE [err |-> FALSE,
             state |-> AddDef([s EXCEPT !.addressSpace_ = residues],
                              startAddr, endAddr)]

\* What Ud::Init does to one address space in a create mode: UdState::Init,
\* then the catch-all AddDef(0, std::numeric_limits<W>::max()).
SeededState(expectedPartialUseCount) ==
    AddDef(UdStateInit(expectedPartialUseCount), 0, WMax)

----------------------------------------------------------------------------
(* The UdState harness: one address space (memState_), seeded as Ud::Init  *)
(* seeds it, driven by AddUses and AddDefs calls.                          *)

\* The <<startAddr, size>> pairs with size >= 1 that end at or below MaxEnd.
InRangePairs == {r \in (0..MaxEnd) \X (1..MaxEnd) : r[1] + r[2] <= MaxEnd}

\* The pairs the harness passes: the in-range ones, an empty range, the byte
\* at the top address, two bytes from the top address (startAddr + 1 and
\* startAddr + size both wrap), and a size that wraps startAddr + size past
\* max(W).
Ranges ==
    InRangePairs \cup {<<1, 0>>, <<WMax, 1>>, <<WMax, 2>>, <<MaxEnd - 1, WMax>>}

\* The number of AddUses calls so far that emitted a use.
ReadCalls(h) == IF h = <<>> THEN 0 ELSE h[Len(h)].call

\* The history kept for the uses a read of [startAddr, startAddr + size)
\* emits: the read's range and the live interval each use was emitted for.
ReadsOf(s, h, startAddr, size) ==
    LET endAddr == WAdd(startAddr, size)
        keys == Affected(s.addressSpace_, WAdd(startAddr, 1), endAddr)
    IN [i \in 1..Len(keys) |->
           [startAddr |-> startAddr, endAddr |-> endAddr,
            liveStart |-> s.addressSpace_[keys[i]].startAddr,
            liveEnd |-> keys[i],
            call |-> ReadCalls(h) + 1]]

\* No AddDefs call recorded.
NoRet == [call |-> "none", startAddr |-> 0, size |-> 0, err |-> FALSE, before |-> <<>>]

PUIdle == PUTableInit /\ puLast = <<>>

\* The builder's variables while the UdState harness or the table harness runs.
BuildIdle ==
    /\ trace_ = <<>> /\ code_ = <<>> /\ text_ = <<>> /\ entryIndex_ = 0
    /\ phase = "idle"
    /\ header_ = [endianness |-> "Little", wordSize |-> 4, machineType |-> "EM_386"]
    /\ host = "Little"
    /\ disk = [header |-> <<>>, files |-> <<>>] /\ loaded = <<>>

\* No MmVector.
NoVec == [T |-> "none", stage |-> "none", size |-> 0, capacity_ |-> 0,
          entries |-> <<>>,
          file |-> [exists |-> FALSE, length |-> 0, size |-> 0, entries |-> <<>>],
          reopened |-> <<>>]

\* The reader's variables while no trace file is read call by call.
NoCall == [call |-> "none", arg |-> 0, result |-> "none", py |-> <<>>,
           prevCall |-> "none", prevArg |-> 0, prevResult |-> "none"]

\* No trace file.
NoFile == [magic |-> <<>>, size |-> 0, headerLength |-> 0]

ReaderIdle ==
    traceFile = NoFile /\ data_ = <<>> /\ length_ = 0 /\ cur_ = 0 /\ out = NoCall

\* Ud::Init on a short trace file passes expectedPartialUseCount = 0.
InitUdState ==
    /\ memState_ = SeededState(0)
    /\ regState_ = SeededState(0)
    /\ readOf = [mem |-> <<>>, reg |-> <<>>] /\ ret = NoRet /\ vec = NoVec
    /\ PUIdle
    /\ BuildIdle
    /\ ReaderIdle

OpsDone == (Len(memState_.defs_) - 1) + ReadCalls(readOf.mem)

\* memState_.AddUses(startAddr, size).
DoAddUses(startAddr, size) ==
    /\ memState_' = AddUses(memState_, startAddr, size)
    /\ readOf' = [readOf EXCEPT
                     !.mem = @ \o ReadsOf(memState_, @, startAddr, size)]
    /\ UNCHANGED <<regState_, ret, puVars, vec, buildVars, readerVars>>

\* memState_.AddDefs(startAddr, size).
DoAddDefs(startAddr, size) ==
    /\ memState_' = AddDefs(memState_, startAddr, size).state
    /\ UNCHANGED <<regState_, readOf, ret, puVars, vec, buildVars, readerVars>>

CallAddUses == \E r \in Ranges : OpsDone < MaxOps /\ DoAddUses(r[1], r[2])
CallAddDefs == \E r \in Ranges : OpsDone < MaxOps /\ DoAddDefs(r[1], r[2])

NextUdState == CallAddUses \/ CallAddDefs

\* Every kind of start and size a record can carry.
SpecUdState == InitUdState /\ [][NextUdState]_vars

\* Only calls with size >= 1 and startAddr + size <= max(W).
CallAddUsesInRange ==
    \E r \in InRangePairs : OpsDone < MaxOps /\ DoAddUses(r[1], r[2])
CallAddDefsInRange ==
    \E r \in InRangePairs : OpsDone < MaxOps /\ DoAddDefs(r[1], r[2])

NextUdStateInRange == CallAddUsesInRange \/ CallAddDefsInRange

SpecUdStateInRange == InitUdState /\ [][NextUdStateInRange]_vars

----------------------------------------------------------------------------
(* Properties of the live-writer map and of the emitted uses.              *)

\* The keys of the live intervals [startAddr, endAddr) that contain address a.
LiveKeysAt(m, a) == {k \in DOMAIN m : m[k].startAddr <= a /\ a < k}

\* The indices of the defs whose range contains address a.
DefsCovering(defs, a) ==
    {d \in 0..(Len(defs) - 1) : defs[d + 1].startAddr <= a /\ a < defs[d + 1].endAddr}

\* The use indices of an address space.
UseIndices(s) == 0..(Len(s.uses_) - 1)

\* The def a use refers to.
DefOfUse(s, u) == s.defs_[s.uses_[u + 1] + 1]

\* C1: after the seed and in-range AddDefs calls, every address below max(W)
\* lies in a live interval, and the defIndex of that interval is the largest
\* index of a def whose range contains the address.
C1_LiveWriterIsMostRecentDef ==
    \A a \in 0..(WMax - 1) :
        /\ LiveKeysAt(memState_.addressSpace_, a) # {}
        /\ \A k \in LiveKeysAt(memState_.addressSpace_, a) :
               memState_.addressSpace_[k].defIndex = Max(DefsCovering(memState_.defs_, a))

\* Three defs besides the catch-all, one address written by two of them and
\* another address whose live writer is the oldest of the three.
C1_Witness ==
    /\ Len(memState_.defs_) = 4
    /\ \E a \in 0..(WMax - 1) : Cardinality(DefsCovering(memState_.defs_, a)) >= 3
    /\ \E a \in 0..(WMax - 1) :
           \E k \in LiveKeysAt(memState_.addressSpace_, a) :
               memState_.addressSpace_[k].defIndex = 1

\* C2 as stated: the live intervals are pairwise disjoint and their union is
\* every address of the W-bit address space, 0 .. max(W).
C2_DisjointAndCoversAll ==
    /\ \A a \in 0..WMax : Cardinality(LiveKeysAt(memState_.addressSpace_, a)) <= 1
    /\ \A a \in 0..WMax : LiveKeysAt(memState_.addressSpace_, a) # {}

EntryOfUse(s, u) == s.partialUses_.entries[PUFind(s.partialUses_, u) + 1].second

\* C4 as stated: the partial-use entry of a use is the intersection of the
\* read range with the full range of the def the use refers to.
C4_EntryIsReadMeetDef ==
    \A u \in UseIndices(memState_) :
        PUFind(memState_.partialUses_, u) # -1 =>
            EntryOfUse(memState_, u) =
                Def(MaxOf(readOf.mem[u + 1].startAddr, DefOfUse(memState_, u).startAddr),
                    MinOf(readOf.mem[u + 1].endAddr, DefOfUse(memState_, u).endAddr))

\* C4 amended: the partial-use entry of a use is the read range clipped to the
\* live interval the use was emitted for, and it differs from the full range
\* of the def the use refers to.  Nothing more relates it to the def's range:
\* after a store whose end wraps past the top address a live interval can
\* reach beyond its def, and the entry with it.
C4_EntryIsReadMeetLive ==
    \A u \in UseIndices(memState_) :
        PUFind(memState_.partialUses_, u) # -1 =>
            /\ EntryOfUse(memState_, u) =
                   Def(MaxOf(readOf.mem[u + 1].startAddr, readOf.mem[u + 1].liveStart),
                       MinOf(readOf.mem[u + 1].endAddr, readOf.mem[u + 1].liveEnd))
            /\ EntryOfUse(memState_, u) # DefOfUse(memState_, u)

\* A use of a partly overwritten def: its entry is smaller than the
\* intersection of the read with the def's full range.
C4_Witness ==
    \E u \in UseIndices(memState_) :
        /\ PUFind(memState_.partialUses_, u) # -1
        /\ memState_.uses_[u + 1] # 0
        /\ EntryOfUse(memState_, u) #
               Def(MaxOf(readOf.mem[u + 1].startAddr, DefOfUse(memState_, u).startAddr),
                   MinOf(readOf.mem[u + 1].endAddr, DefOfUse(memState_, u).endAddr))

----------------------------------------------------------------------------
(* Ud<W>, the graph builder.  A builder is the record                      *)
(* [trace_, code_, text_, regState_, memState_]; the variables of the same *)
(* names hold the fields of the builder that TraceMm::Visit drives.        *)

\* A value-initialised InsnInTrace.
InsnInTrace == [codeIndex |-> 0,
                regUseStartIndex |-> 0, regUseEndIndex |-> 0,
                memUseStartIndex |-> 0, memUseEndIndex |-> 0,
                regDefStartIndex |-> 0, regDefEndIndex |-> 0,
                memDefStartIndex |-> 0, memDefEndIndex |-> 0]

InsnInCode(pc, textIndex, textSize) ==
    [pc |-> pc, textIndex |-> textIndex, textSize |-> textSize]

GetUseCount(s) == Len(s.uses_)
GetDefCount(s) == Len(s.defs_)

\* AddTrace that leaves the def start indices value-initialised.
AddTrace_NoDefStart(ud, codeIndex) ==
    [ud EXCEPT !.trace_ = Append(@,
        [InsnInTrace EXCEPT
            !.codeIndex = codeIndex,
            !.regUseStartIndex = GetUseCount(ud.regState_),
            !.memUseStartIndex = GetUseCount(ud.memState_)])]

\* Ud::AddTrace(codeIndex).
AddTrace(ud, codeIndex) ==
    [ud EXCEPT !.trace_ = Append(@,
        [InsnInTrace EXCEPT
            !.codeIndex = codeIndex,
            !.regUseStartIndex = GetUseCount(ud.regState_),
            !.memUseStartIndex = GetUseCount(ud.memState_),
            !.regDefStartIndex = GetDefCount(ud.regState_),
            !.memDefStartIndex = GetDefCount(ud.memState_)])]

\* Flush that forgets the def end indices.
Flush_NoDefEnd(ud) ==
    [ud EXCEPT !.trace_[Len(ud.trace_)] =
        [@ EXCEPT !.regUseEndIndex = GetUseCount(ud.regState_),
                  !.memUseEndIndex = GetUseCount(ud.memState_)]]

\* Ud::Flush(): the end indices of trace_.back() (verbose_ is off).
Flush(ud) ==
    [ud EXCEPT !.trace_[Len(ud.trace_)] =
        [@ EXCEPT !.regUseEndIndex = GetUseCount(ud.regState_),
                  !.memUseEndIndex = GetUseCount(ud.memState_),
                  !.regDefEndIndex = GetDefCount(ud.regState_),
                  !.memDefEndIndex = GetDefCount(ud.memState_)]]

\* HandleInsnSeq that opens the new entry without flushing the open one.
HandleInsnSeq_NoFlush(ud, insnSeq) ==
    IF ud.trace_[Len(ud.trace_)].codeIndex = insnSeq
    THEN ud
    ELSE AddTrace(ud, insnSeq)

\* Ud::HandleInsnSeq(insnSeq).
HandleInsnSeq(ud, insnSeq) ==
    IF ud.trace_[Len(ud.trace_)].codeIndex = insnSeq
    THEN ud
    ELSE AddTrace(Flush(ud), insnSeq)

\* Disasm::Init that does not look at the endianness for EM_386.
DisasmInit_386AnyEndianness(type, endianness, wordSize) ==
    CASE type = "EM_386" -> wordSize = 4
      [] type = "EM_X86_64" -> endianness = "Little" /\ wordSize = 8
      [] type = "EM_PPC64" -> wordSize = 8
      [] type = "EM_ARM" -> wordSize = 4
      [] type = "EM_AARCH64" -> wordSize = 8
      [] type = "EM_S390" -> endianness = "Big"
      [] type = "EM_MIPS" -> TRUE
      [] OTHER -> FALSE

\* Disasm::Init(type, endianness, wordSize), its return value: "ok" for 0,
\* "EINVAL" for the -EINVAL of a supported type with a rejected endianness
\* or word size, "-1" for the default branch of the switch (cs_open succeeds
\* for every combination the switch lets through).
DisasmInitResult(type, endianness, wordSize) ==
    LET accept(valid) == IF valid THEN "ok" ELSE "EINVAL"
    IN CASE type = "EM_386" -> accept(endianness = "Little" /\ wordSize = 4)
         [] type = "EM_X86_64" -> accept(endianness = "Little" /\ wordSize = 8)
         [] type = "EM_PPC64" -> accept(wordSize = 8)
         [] type = "EM_ARM" -> accept(wordSize = 4)
         [] type = "EM_AARCH64" -> accept(wordSize = 8)
         [] type = "EM_S390" -> accept(endianness = "Big")
         [] type = "EM_MIPS" -> "ok"
         [] OTHER -> "-1"

\* Disasm::Init(type, endianness, wordSize) returns 0.
DisasmInit(type, endianness, wordSize) ==
    DisasmInitResult(type, endianness, wordSize) = "ok"

\* Ud::Init that opens the seed trace entry after the catch-all defs.
UdInitCreate_TraceAfterDefs(machineType, endianness, wordSize, expectedInsnCount) ==
    LET regs == UdStateInit(expectedInsnCount \div 10)
        mems == UdStateInit(expectedInsnCount \div 20)
        empty == [trace_ |-> <<>>, code_ |-> <<InsnInCode(0, 0, 0)>>, text_ |-> <<>>,
                  regState_ |-> regs, memState_ |-> mems]
        seeded == [empty EXCEPT !.regState_ = AddDef(@, 0, WMax),
                                !.memState_ = AddDef(@, 0, WMax)]
    IN [err |-> ~DisasmInit(machineType, endianness, wordSize),
        ud |-> AddTrace(seeded, 0)]

\* Ud::Init in a create mode with a binary path template: the vectors are
\* created empty, the catch-all code, trace entry and defs are added, and the
\* disassembler is initialised last.  [err, ud].
UdInitCreate(machineType, endianness, wordSize, expectedInsnCount) ==
    LET regs == UdStateInit(expectedInsnCount \div 10)
        mems == UdStateInit(expectedInsnCount \div 20)
        empty == [trace_ |-> <<>>, code_ |-> <<InsnInCode(0, 0, 0)>>, text_ |-> <<>>,
                  regState_ |-> regs, memState_ |-> mems]
        traced == AddTrace(empty, 0)
        seeded == [traced EXCEPT !.regState_ = AddDef(@, 0, WMax),
                                 !.memState_ = AddDef(@, 0, WMax)]
    IN [err |-> ~DisasmInit(machineType, endianness, wordSize), ud |-> seeded]

\* operator()(LdStEntry) that records the use of a GET_REG in the memory space.
VisitLdStEntry_RegUseInMem(ud, tag, insnSeq, addr, size) ==
    LET seq == HandleInsnSeq(ud, insnSeq)
    IN CASE tag = "MT_LOAD" ->
              [err |-> FALSE, ud |-> [seq EXCEPT !.memState_ = AddUses(@, addr, size)]]
         [] tag = "MT_STORE" ->
              LET r == AddDefs(seq.memState_, addr, size)
              IN [err |-> r.err, ud |-> [seq EXCEPT !.memState_ = r.state]]
         [] tag = "MT_REG" -> [err |-> FALSE, ud |-> seq]
         [] tag = "MT_GET_REG" ->
              [err |-> FALSE, ud |-> [seq EXCEPT !.memState_ = AddUses(@, addr, size)]]
         [] tag = "MT_PUT_REG" ->
              LET r == AddDefs(seq.regState_, addr, size)
              IN [err |-> r.err, ud |-> [seq EXCEPT !.regState_ = r.state]]
         [] OTHER -> [err |-> TRUE, ud |-> seq]

\* operator()(LdStEntry): [err, ud].
VisitLdStEntry(ud, tag, insnSeq, addr, size) ==
    LET seq == HandleInsnSeq(ud, insnSeq)
    IN CASE tag = "MT_LOAD" ->
              [err |-> FALSE, ud |-> [seq EXCEPT !.memState_ = AddUses(@, addr, size)]]
         [] tag = "MT_STORE" ->
              LET r == AddDefs(seq.memState_, addr, size)
              IN [err |-> r.err, ud |-> [seq EXCEPT !.memState_ = r.state]]
         [] tag = "MT_REG" -> [err |-> FALSE, ud |-> seq]
         [] tag = "MT_GET_REG" ->
              [err |-> FALSE, ud |-> [seq EXCEPT !.regState_ = AddUses(@, addr, size)]]
         [] tag = "MT_PUT_REG" ->
              LET r == AddDefs(seq.regState_, addr, size)
              IN [err |-> r.err, ud |-> [seq EXCEPT !.regState_ = r.state]]
         [] OTHER -> [err |-> TRUE, ud |-> seq]

\* operator()(LdStNxEntry): [err, ud].
VisitLdStNxEntry(ud, tag, insnSeq, addr, size) ==
    LET seq == HandleInsnSeq(ud, insnSeq)
    IN CASE tag = "MT_GET_REG_NX" ->
              [err |-> FALSE, ud |-> [seq EXCEPT !.regState_ = AddUses(@, addr, size)]]
         [] tag = "MT_PUT_REG_NX" ->
              LET r == AddDefs(seq.regState_, addr, size)
              IN [err |-> r.err, ud |-> [seq EXCEPT !.regState_ = r.state]]
         [] OTHER -> [err |-> TRUE, ud |-> seq]

\* operator()(InsnEntry) without the test of insnSeq.
VisitInsnEntry_AnySeq(ud, insnSeq, pc, value) ==
    [err |-> FALSE,
     ud |-> [ud EXCEPT
               !.code_ = Append(@, InsnInCode(pc, Len(ud.text_), Len(value))),
               !.text_ = @ \o value]]

\* operator()(InsnEntry): [err, ud].  disasm_ is not modelled.
VisitInsnEntry(ud, insnSeq, pc, value) ==
    IF insnSeq # Len(ud.code_)
    THEN [err |-> TRUE, ud |-> ud]
    ELSE [err |-> FALSE,
          ud |-> [ud EXCEPT
                    !.code_ = Append(@, InsnInCode(pc, Len(ud.text_), Len(value))),
                    !.text_ = @ \o value]]

\* operator()(InsnExecEntry): [err, ud].
VisitInsnExecEntry(ud, insnSeq) == [err |-> FALSE, ud |-> HandleInsnSeq(ud, insnSeq)]

\* operator()(MmapEntry): [err, ud].
VisitMmapEntry(ud) == [err |-> FALSE, ud |-> ud]

\* std::lower_bound in the place of std::upper_bound.
RECURSIVE UpperBound_Lower(_, _, _, _, _)
UpperBound_Lower(trace, first, len, defIndex, startDefIndex) ==
    IF len <= 0 THEN first
    ELSE LET half == len \div 2
             middle == first + half
         IN IF trace[middle + 1][startDefIndex] < defIndex
            THEN UpperBound_Lower(trace, middle + 1, len - half - 1, defIndex, startDefIndex)
            ELSE UpperBound_Lower(trace, first, half, defIndex, startDefIndex)

\* std::upper_bound over trace[first .. first + len) with the comparison
\* defIndex < trace.*startDefIndex, as the binary search computes it; the
\* result is a 0-based position.
RECURSIVE UpperBound(_, _, _, _, _)
UpperBound(trace, first, len, defIndex, startDefIndex) ==
    IF len <= 0 THEN first
    ELSE LET half == len \div 2
             middle == first + half
         IN IF defIndex < trace[middle + 1][startDefIndex]
            THEN UpperBound(trace, first, half, defIndex, startDefIndex)
            ELSE UpperBound(trace, middle + 1, len - half - 1, defIndex, startDefIndex)

\* ResolveUse(useIndex, ...) for the address space s: [def, traceIndex].
ResolveUse(s, useIndex, trace, startDefIndex) ==
    LET defIndex == s.uses_[useIndex + 1]
        entries == s.partialUses_.entries
        partialUse == entries[FindPartialUse(entries, Len(entries), useIndex) + 1]
        def == IF partialUse.first = kEmpty
               THEN s.defs_[defIndex + 1]
               ELSE partialUse.second
        it == UpperBound(trace, 0, Len(trace), defIndex, startDefIndex)
    IN [def |-> def, traceIndex |-> it - 1]

\* The queries of UdBase on a builder or on a loaded graph.
GetCodesForPc(ud, pc) ==
    SelectSeq([i \in 1..Len(ud.code_) |-> i - 1], LAMBDA code : ud.code_[code + 1].pc = pc)
GetPcForCode(ud, code) == ud.code_[code + 1].pc
GetTracesForCode(ud, code) ==
    SelectSeq([i \in 1..Len(ud.trace_) |-> i - 1],
              LAMBDA trace : ud.trace_[trace + 1].codeIndex = code)
GetCodeForTrace(ud, trace) == ud.trace_[trace + 1].codeIndex
GetRegUsesForTrace(ud, trace) ==
    LET from == ud.trace_[trace + 1].regUseStartIndex
        to == ud.trace_[trace + 1].regUseEndIndex
    IN [i \in 1..(to - from) |-> from + i - 1]
GetMemUsesForTrace(ud, trace) ==
    LET from == ud.trace_[trace + 1].memUseStartIndex
        to == ud.trace_[trace + 1].memUseEndIndex
    IN [i \in 1..(to - from) |-> from + i - 1]
GetTraceForRegUse(ud, regUse) ==
    ResolveUse(ud.regState_, regUse, ud.trace_, "regDefStartIndex").traceIndex
GetTraceForMemUse(ud, memUse) ==
    ResolveUse(ud.memState_, memUse, ud.trace_, "memDefStartIndex").traceIndex

----------------------------------------------------------------------------
(* Persistence: the MmVector files, the header file, UdBase::Load.         *)

\* ~MmVector: the file keeps the size prefix and `size` entries.
MmClose(v) == [size |-> Len(v), entries |-> v]

\* InitOpened mapping one entry less than the size prefix says.
MmOpen_OneShort(file) == [i \in 1..(file.size - 1) |-> file.entries[i]]

\* MmVector::InitOpened: the size prefix and that many entries are mapped.
MmOpen(file) == [i \in 1..file.size |-> file.entries[i]]

\* The files an address space leaves behind.
UdStateClose(s) ==
    [uses |-> MmClose(s.uses_), defs |-> MmClose(s.defs_),
     partialUses |-> MmClose(s.partialUses_.entries)]

\* UdState::Init with OpenExisting: nothing is reserved, the live map is empty;
\* PartialUses::Init leaves load_ = 0 and sets maxLoad_ = size / 2.
UdStateOpen(files) ==
    [uses_ |-> MmOpen(files.uses),
     defs_ |-> MmOpen(files.defs),
     partialUses_ |-> [entries |-> MmOpen(files.partialUses),
                       load_ |-> 0,
                       maxLoad_ |-> files.partialUses.size \div 2],
     addressSpace_ |-> <<>>]

\* The destructor of Ud: the files of its MmVectors.
UdClose(ud) ==
    [trace |-> MmClose(ud.trace_), code |-> MmClose(ud.code_),
     text |-> MmClose(ud.text_),
     reg |-> UdStateClose(ud.regState_), mem |-> UdStateClose(ud.memState_)]

\* '0' + sizeof(W).
WordDigit(wordSize) == IF wordSize = 4 THEN "4" ELSE "8"

\* Ud::DumpBinary: the uint16 ('M' << 8) | ('0' + sizeof(W)) is stored in host
\* byte order into magic[0..1].
DumpBinary(machineType, endianness, wordSize, hostEndianness) ==
    [magic |-> IF hostEndianness = "Little"
               THEN <<WordDigit(wordSize), "M">>
               ELSE <<"M", WordDigit(wordSize)>>,
     machineType |-> machineType,
     endianness |-> endianness]

\* Ud::Init(header): OpenExisting, no catch-all, the disassembler initialised
\* with the header's machine type and endianness.  [err, ud].
UdInitOpen(files, header, wordSize) ==
    [err |-> ~DisasmInit(header.machineType, header.endianness, wordSize),
     ud |-> [trace_ |-> MmOpen(files.trace), code_ |-> MmOpen(files.code),
             text_ |-> MmOpen(files.text),
             regState_ |-> UdStateOpen(files.reg),
             memState_ |-> UdStateOpen(files.mem)]]

\* The word size the switch of UdBase::Load selects; 0 when ud stays nullptr.
LoadWordSize(magic, hostEndianness) ==
    CASE magic = <<"M", "4">> /\ hostEndianness = "Big" -> 4
      [] magic = <<"M", "8">> /\ hostEndianness = "Big" -> 8
      [] magic = <<"4", "M">> /\ hostEndianness = "Little" -> 4
      [] magic = <<"8", "M">> /\ hostEndianness = "Little" -> 8
      [] OTHER -> 0

\* UdBase::Load: [null, ud].
Load(d, hostEndianness) ==
    IF d.header = <<>> \/ d.files = <<>>
    THEN [null |-> TRUE, ud |-> <<>>]
    ELSE LET wordSize == LoadWordSize(d.header.magic, hostEndianness)
         IN IF wordSize = 0
            THEN [null |-> TRUE, ud |-> <<>>]
            ELSE LET r == UdInitOpen(d.files, d.header, wordSize)
                 IN IF r.err THEN [null |-> TRUE, ud |-> <<>>]
                    ELSE [null |-> FALSE, ud |-> r.ud]

----------------------------------------------------------------------------
(* The build: TraceMm::Visit constructs a Ud, calls Init, dispatches the   *)
(* records of the file to it one by one, and calls Complete at the end.    *)

LdStTags == {"MT_LOAD", "MT_STORE", "MT_REG", "MT_GET_REG", "MT_PUT_REG"}
LdStNxTags == {"MT_GET_REG_NX", "MT_PUT_REG_NX"}
InsnSeqs == 0..MaxInsnSeq
\* The <<addr, size>> pairs of the records: two ranges that overlap in part.
BuildRanges == {<<0, 2>>, <<1, 2>>}
Pcs == {0, 1}
InsnValues == {<<>>, <<144>>}

\* The builder the variables hold.
UdNow == [trace_ |-> trace_, code_ |-> code_, text_ |-> text_,
          regState_ |-> regState_, memState_ |-> memState_]

SetUd(ud) ==
    /\ trace_' = ud.trace_ /\ code_' = ud.code_ /\ text_' = ud.text_
    /\ regState_' = ud.regState_ /\ memState_' = ud.memState_

\* Tlv::GetAlignedLength for the word size of the trace.
AlignedLength(length, wordSize) ==
    ((length + (wordSize - 1)) \div wordSize) * wordSize

\* Tlv::kFixedLength.
TlvFixedLength == 2 * 2

\* Visit up to the first record: the Ud is constructed and Init called with
\* expectedInsnCount = length_ / 128 = 0 for the short files modelled.
InitVisit(headers, hosts) ==
    /\ header_ \in headers
    /\ host \in hosts
    /\ LET r == UdInitCreate(header_.machineType, header_.endianness,
                             header_.wordSize, 0)
       IN /\ trace_ = r.ud.trace_ /\ code_ = r.ud.code_ /\ text_ = r.ud.text_
          /\ regState_ = r.ud.regState_ /\ memState_ = r.ud.memState_
          /\ phase = IF r.err THEN "failed" ELSE "building"
    /\ entryIndex_ = 0
    /\ disk = [header |-> <<>>, files |-> <<>>]
    /\ loaded = <<>>
    /\ readOf = [mem |-> <<>>, reg |-> <<>>] /\ ret = NoRet /\ vec = NoVec
    /\ PUIdle
    /\ traceFile = NoFile /\ data_ = <<>> /\ length_ = 0 /\ out = NoCall
    /\ cur_ = AlignedLength(TlvFixedLength + 2, header_.wordSize)

\* LdStEntry::kValueOffset and InsnEntry::kValueOffset for the word size of
\* the trace: the TLV header, the insnSeq and one word.
ValueOffset == TlvFixedLength + 4 + header_.wordSize

\* TraceMm::VisitOne on a well-framed record of the given length inside the
\* window: the visitor's result r, then Advance(entry.GetAlignedLength()) and
\* entryIndex_++ unless it failed.  The file is not held in the state: the
\* record at the cursor is what the action reads there, and the file ends
\* where Complete is taken.
VisitOne(r, length, limit) ==
    /\ phase = "building"
    /\ entryIndex_ < limit
    /\ SetUd(r.ud)
    /\ phase' = IF r.err THEN "failed" ELSE "building"
    /\ entryIndex_' = IF r.err THEN entryIndex_ ELSE entryIndex_ + 1
    /\ cur_' = IF r.err THEN cur_
               ELSE cur_ + AlignedLength(length, header_.wordSize)
    /\ UNCHANGED <<readOf, ret, puVars, vec, traceFile, data_, length_, out,
                   header_, host, disk, loaded>>

\* A load/store-like record: its value has size bytes.
ReadLdSt(limit) ==
    \E tag \in LdStTags, insnSeq \in InsnSeqs, r \in BuildRanges :
        VisitOne(VisitLdStEntry(UdNow, tag, insnSeq, r[1], r[2]),
                 ValueOffset + r[2], limit)

\* A record without value: it ends after its size field.
ReadLdStNx(limit) ==
    \E tag \in LdStNxTags, insnSeq \in InsnSeqs, r \in BuildRanges :
        VisitOne(VisitLdStNxEntry(UdNow, tag, insnSeq, r[1], r[2]),
                 ValueOffset + header_.wordSize, limit)

ReadInsn(limit) ==
    \E insnSeq \in InsnSeqs, pc \in Pcs, value \in InsnValues :
        VisitOne(VisitInsnEntry(UdNow, insnSeq, pc, value),
                 ValueOffset + Len(value), limit)

ReadInsnExec(limit) ==
    \E insnSeq \in InsnSeqs :
        VisitOne(VisitInsnExecEntry(UdNow, insnSeq), TlvFixedLength + 4, limit)

\* A mapping record with a name of one byte after its four words.
ReadMmap(limit) ==
    VisitOne(VisitMmapEntry(UdNow), 4 * header_.wordSize + 1, limit)

\* Complete that writes the header without flushing the open trace entry.
Complete_NoFlush ==
    /\ phase = "building"
    /\ SetUd(UdNow)
    /\ disk' = [disk EXCEPT !.header = DumpBinary(header_.machineType,
                                header_.endianness, header_.wordSize, host)]
    /\ phase' = "complete"
    /\ UNCHANGED <<readOf, ret, puVars, vec, readerVars, entryIndex_, header_, host, loaded>>

\* Ud::Complete at the end of the file: Flush, then DumpBinary writes the
\* header file (no dot, html or csv output is asked for).
Complete ==
    /\ phase = "building"
    /\ SetUd(Flush(UdNow))
    /\ disk' = [disk EXCEPT !.header = DumpBinary(header_.machineType,
                                header_.endianness, header_.wordSize, host)]
    /\ phase' = "complete"
    /\ UNCHANGED <<readOf, ret, puVars, vec, readerVars, entryIndex_, header_, host, loaded>>

\* Visit returns and the Ud is destroyed, after Complete or after an error.
Close ==
    /\ phase \in {"complete", "failed"}
    /\ disk' = [disk EXCEPT !.files = UdClose(UdNow)]
    /\ phase' = "closed"
    /\ UNCHANGED <<udVars, readOf, ret, puVars, vec, readerVars, trace_, code_, text_,
                   entryIndex_, header_, host, loaded>>

\* UdBase::Load on the path the build wrote to, on the same host.
DoLoad ==
    /\ phase = "closed"
    /\ LET r == Load(disk, host)
       IN /\ loaded' = r.ud
          /\ phase' = IF r.null THEN "absent" ELSE "loaded"
    /\ UNCHANGED <<udVars, readOf, ret, puVars, vec, readerVars, trace_, code_, text_,
                   entryIndex_, header_, host, disk>>

BuildHeaders == {[endianness |-> "Little", wordSize |-> 4, machineType |-> "EM_386"]}
BuildHosts == {"Little"}

InitBuild == InitVisit(BuildHeaders, BuildHosts)

NextBuild ==
    \/ ReadLdSt(MaxRecords)
    \/ ReadLdStNx(MaxRecords)
    \/ ReadInsn(MaxRecords)
    \/ ReadInsnExec(MaxRecords)
    \/ ReadMmap(MaxRecords)
    \/ Complete

\* The build of one trace file for EM_386 on a little-endian host.
SpecBuild == InitBuild /\ [][NextBuild]_vars

PersistHeaders == [endianness : {"Little", "Big"}, wordSize : {4, 8},
                   machineType : {"EM_386", "EM_S390", "EM_PPC"}]
PersistHosts == {"Little", "Big"}

InitPersist == InitVisit(PersistHeaders, PersistHosts)

NextPersist ==
    \/ ReadLdSt(MaxPersistRecords)
    \/ ReadLdStNx(MaxPersistRecords)
    \/ ReadInsn(MaxPersistRecords)
    \/ ReadInsnExec(MaxPersistRecords)
    \/ ReadMmap(MaxPersistRecords)
    \/ Complete
    \/ Close
    \/ DoLoad

\* A build with a binary path template, then UdBase::Load of what it wrote.
SpecPersist == InitPersist /\ [][NextPersist]_vars

----------------------------------------------------------------------------
(* Properties of the built graph.                                          *)

TraceIndices(ud) == 0..(Len(ud.trace_) - 1)

\* The two address spaces of a builder, each with the InsnInTrace fields
\* that index into it.
Spaces(ud) ==
    {[state |-> ud.regState_, useStart |-> "regUseStartIndex",
      useEnd |-> "regUseEndIndex", defStart |-> "regDefStartIndex",
      defEnd |-> "regDefEndIndex"],
     [state |-> ud.memState_, useStart |-> "memUseStartIndex",
      useEnd |-> "memUseEndIndex", defStart |-> "memDefStartIndex",
      defEnd |-> "memDefEndIndex"]}

\* The uses emitted while trace entry t was (or still is) the open one.
UsesEmittedIn(ud, sp, t) ==
    LET from == ud.trace_[t + 1][sp.useStart]
        to == IF t = Len(ud.trace_) - 1 /\ phase # "complete"
              THEN GetUseCount(sp.state)
              ELSE ud.trace_[t + 1][sp.useEnd]
    IN from..(to - 1)

ResolvedTrace(ud, sp, u) == ResolveUse(sp.state, u, ud.trace_, sp.defStart).traceIndex

\* C5 as stated: a use emitted while trace entry t is open resolves to a
\* trace index strictly less than t.
C5_ResolvedTraceIsEarlier ==
    \A sp \in Spaces(UdNow) : \A t \in TraceIndices(UdNow) :
        \A u \in UsesEmittedIn(UdNow, sp, t) : ResolvedTrace(UdNow, sp, u) < t

\* C5 amended: a use emitted while trace entry t is open resolves to a trace
\* index t' <= t, and t' = t exactly when the def it refers to was recorded
\* while t was already the open entry (the seed for t = 0, an earlier write
\* of the same instruction otherwise).
C5_ResolvedTraceIsNotLater ==
    \A sp \in Spaces(UdNow) : \A t \in TraceIndices(UdNow) :
        \A u \in UsesEmittedIn(UdNow, sp, t) :
            LET resolved == ResolvedTrace(UdNow, sp, u)
            IN /\ resolved <= t
               /\ resolved = t <=> sp.state.uses_[u + 1] >= UdNow.trace_[t + 1][sp.defStart]

\* An instruction other than the seed reads what it wrote itself, and an
\* earlier instruction's write is read too.
C5_Witness ==
    /\ Len(trace_) >= 3
    /\ \E u \in UsesEmittedIn(UdNow, CHOOSE sp \in Spaces(UdNow) : sp.useStart = "regUseStartIndex", 2) :
           GetTraceForRegUse(UdNow, u) = 2
    /\ \E u \in UsesEmittedIn(UdNow, CHOOSE sp \in Spaces(UdNow) : sp.useStart = "regUseStartIndex", 2) :
           GetTraceForRegUse(UdNow, u) = 1

\* C6: ResolveUse returns the partial-use entry of u when the table has one
\* and defs[uses[u]] otherwise, and the trace index it returns is the largest
\* t whose start def index is at most uses[u].
C6_ResolveUseIsEntryOrDefAndLastStart ==
    \A sp \in Spaces(UdNow) : \A u \in UseIndices(sp.state) :
        LET r == ResolveUse(sp.state, u, trace_, sp.defStart)
            entries == sp.state.partialUses_.entries
            hits == {i \in 1..Len(entries) : entries[i].first = u}
            defIndex == sp.state.uses_[u + 1]
        IN /\ IF hits = {} THEN r.def = sp.state.defs_[defIndex + 1]
              ELSE \A i \in hits : r.def = entries[i].second
           /\ r.traceIndex = Max({t \in TraceIndices(UdNow) :
                                     trace_[t + 1][sp.defStart] <= defIndex})

\* A completed build with a use that has a partial-use entry and resolves to
\* a trace entry that shares its start def index with the entry before it.
C6_Witness ==
    /\ phase = "complete"
    /\ \E u \in UseIndices(memState_) :
        /\ PUFind(memState_.partialUses_, u) # -1
        /\ LET t == GetTraceForMemUse(UdNow, u)
           IN t >= 2 /\ trace_[t + 1].memDefStartIndex = trace_[t].memDefStartIndex

\* C7: after Complete, the def index of every use lies in the def index range
\* of the trace entry the use resolves to.
C7_UseDefInResolvedTraceRange ==
    phase = "complete" =>
        \A sp \in Spaces(UdNow) : \A u \in UseIndices(sp.state) :
            LET t == ResolvedTrace(UdNow, sp, u)
                defIndex == sp.state.uses_[u + 1]
            IN /\ trace_[t + 1][sp.defStart] <= defIndex
               /\ defIndex < trace_[t + 1][sp.defEnd]

\* A completed build where a use refers to a def written by the last trace
\* entry and another to a def of an earlier, non-seed entry.
C7_Witness ==
    /\ phase = "complete"
    /\ Len(trace_) >= 3
    /\ \E u \in UseIndices(regState_) : GetTraceForRegUse(UdNow, u) = Len(trace_) - 1
    /\ \E u \in UseIndices(regState_) : GetTraceForRegUse(UdNow, u) = 1

\* The answers of the queries C8 lists, for every valid argument.
Answers(ud) ==
    [codesForPc |-> [pc \in Pcs |-> GetCodesForPc(ud, pc)],
     pcForCode |-> [c \in 0..(Len(ud.code_) - 1) |-> GetPcForCode(ud, c)],
     tracesForCode |-> [c \in 0..(Len(ud.code_) - 1) |-> GetTracesForCode(ud, c)],
     codeForTrace |-> [t \in TraceIndices(ud) |-> GetCodeForTrace(ud, t)],
     regUsesForTrace |-> [t \in TraceIndices(ud) |-> GetRegUsesForTrace(ud, t)],
     memUsesForTrace |-> [t \in TraceIndices(ud) |-> GetMemUsesForTrace(ud, t)],
     traceForRegUse |-> [u \in UseIndices(ud.regState_) |-> GetTraceForRegUse(ud, u)],
     traceForMemUse |-> [u \in UseIndices(ud.memState_) |-> GetTraceForMemUse(ud, u)]]

\* C8: UdBase::Load of what a completed build wrote returns a graph, and its
\* queries answer as the builder's did.
C8_ReopenedGraphAnswersAlike ==
    /\ phase = "absent" => disk.header = <<>>
    /\ phase = "loaded" => Answers(loaded) = Answers(UdNow)

\* A graph with two trace entries and a partial use, written and reopened
\* on a big-endian host.
C8_Witness ==
    /\ phase = "loaded"
    /\ host = "Big"
    /\ Len(loaded.trace_) >= 2
    /\ \E u \in UseIndices(loaded.regState_) : PUFind(loaded.regState_.partialUses_, u) # -1
    /\ \E u \in UseIndices(loaded.regState_) : GetTraceForRegUse(loaded, u) = 1

----------------------------------------------------------------------------
(* The table harness: a PartialUses<W> created at size 11 and driven by    *)
(* partialUses[k] = v calls.                                               *)

\* Keys that collide modulo 11, and the value that marks an empty slot.
ProbeKeys == {0, 11, 22, kEmpty}
TableValues == {Def(0, 1), Def(1, 2)}

\* The keys set so far, the marker value aside.
KeysSet == (DOMAIN puLast) \ {kEmpty}

\* The smallest key not set yet.
NextKey == Min({k \in 0..MaxTableKeys : k \notin KeysSet})

InitTable ==
    /\ PUTableInit
    /\ puLast = <<>>
    /\ memState_ = SeededState(0)
    /\ regState_ = SeededState(0)
    /\ readOf = [mem |-> <<>>, reg |-> <<>>] /\ ret = NoRet /\ vec = NoVec
    /\ BuildIdle
    /\ ReaderIdle

\* partialUses[useIndex] = def.
DoSet(useIndex, def) ==
    /\ puTable' = PUSet(puTable, useIndex, def)
    /\ puLast' = MapPut(puLast, useIndex, def)
    /\ UNCHANGED <<udVars, readOf, ret, vec, buildVars, readerVars>>

\* A set of one of the probe keys, new or already set.
SetProbeKey ==
    \E k \in ProbeKeys, v \in TableValues :
        /\ k \in DOMAIN puLast \/ Cardinality(KeysSet) < MaxTableKeys
        /\ DoSet(k, v)

\* A set of the smallest key not set yet.
SetNextKey ==
    /\ Cardinality(KeysSet) < MaxTableKeys
    /\ DoSet(NextKey, Def(NextKey, NextKey + 1))

NextTable == SetProbeKey \/ SetNextKey

SpecTable == InitTable /\ [][NextTable]_vars

\* The keys find is asked for.
AllKeys == (0..MaxTableKeys) \cup ProbeKeys

\* C9: find(k) returns the value last set for every key that was set and
\* nullptr for every other key, and once 64 keys are in a table that began at
\* size 11 its size is a prime of at least 256.
C9_FindReturnsLastSet ==
    /\ \A k \in DOMAIN puLast :
        /\ PUFind(puTable, k) # -1
        /\ puTable.entries[PUFind(puTable, k) + 1].second = puLast[k]
    /\ \A k \in AllKeys \ DOMAIN puLast : PUFind(puTable, k) = -1
    /\ Cardinality(KeysSet) = 64 =>
        /\ Len(puTable.entries) >= 256
        /\ ~HasPrimeFactor(Len(puTable.entries))

----------------------------------------------------------------------------
(* TraceMm, the reader.  data_ is the sequence of the records after the    *)
(* header, each [tag, length, insnSeq]; cur_ is a byte offset into it.     *)

\* The same for the word size of the trace that is open.
GetAlignedLength(length) == AlignedLength(length, header_.wordSize)

\* HeaderEntry::kFixedLength.
HeaderFixedLength == TlvFixedLength + 2

\* header_.GetTlv().GetAlignedLength() of the files read call by call: their
\* header record holds its fixed fields only.
HeaderAlignedLength == GetAlignedLength(HeaderFixedLength)

\* The byte offset of record i (1-based) of data: the records follow the
\* header, each at the aligned end of the one before.
RECURSIVE OffsetOf(_, _)
OffsetOf(data, i) ==
    IF i <= 1 THEN HeaderAlignedLength
    ELSE OffsetOf(data, i - 1) + GetAlignedLength(data[i - 1].length)

\* The offset at which the last record of data ends.
End(data) == OffsetOf(data, Len(data) + 1)

\* The record that starts at byte offset cur: the first of them when a
\* record of aligned length 0 makes the next one start at the same offset.
RecordAt(data, cur) == Min({i \in 1..Len(data) : OffsetOf(data, i) = cur})

KnownTags == LdStTags \cup LdStNxTags \cup {"MT_INSN", "MT_INSN_EXEC", "MT_MMAP"}

\* TraceMm::Have(n) with the cursor at cur.
Have(cur, n) == cur + n <= length_

\* entryIndex_ >= start && entryIndex_ < end, end being a size_t.
InWindow(entryIndex, start, end) ==
    entryIndex >= start /\ (end = kSizeMax \/ entryIndex < end)

\* TraceMm::VisitOne(start, end, visitor) on the reader rd = [cur_,
\* entryIndex_], with a visitor that accepts every entry: [err, rd, index,
\* entry, visited]; index and entry are what the visitor is called with when
\* visited is TRUE.
ReaderVisitOne(data, rd, start, end) ==
    LET failed == [err |-> TRUE, rd |-> rd, index |-> rd.entryIndex_,
                   entry |-> <<>>, visited |-> FALSE]
    IN IF ~Have(rd.cur_, TlvFixedLength)
       THEN failed
       ELSE LET entry == data[RecordAt(data, rd.cur_)]
                aligned == GetAlignedLength(entry.length)
                inWindow == InWindow(rd.entryIndex_, start, end)
            IN IF ~Have(rd.cur_, aligned)
               THEN failed
               ELSE IF inWindow /\ entry.tag \notin KnownTags
                    THEN failed
                    ELSE [err |-> FALSE,
                          rd |-> [cur_ |-> rd.cur_ + aligned,
                                  entryIndex_ |-> rd.entryIndex_ + 1],
                          index |-> rd.entryIndex_, entry |-> entry,
                          visited |-> inWindow]

\* Seek::Seek().
SeekInit == [insnIndex |-> kSizeMax, prevInsnSeq |-> kUint32Max]

\* Seek::HandleInsnSeq.
SeekHandleInsnSeq(visitor, insnSeq) ==
    IF insnSeq # visitor.prevInsnSeq
    THEN [insnIndex |-> visitor.insnIndex + 1, prevInsnSeq |-> insnSeq]
    ELSE visitor

\* Seek::operator() that counts INSN records like the others.
SeekVisit_CountsInsn(visitor, entry) ==
    IF entry.tag \in {"MT_MMAP"}
    THEN visitor
    ELSE SeekHandleInsnSeq(visitor, entry.insnSeq)

\* Seek::operator() that does not count REG records.
SeekVisit_SkipsReg(visitor, entry) ==
    IF entry.tag \in {"MT_INSN", "MT_MMAP", "MT_REG"}
    THEN visitor
    ELSE SeekHandleInsnSeq(visitor, entry.insnSeq)

\* Seek::operator() for each entry type.
SeekVisit(visitor, entry) ==
    IF entry.tag \in {"MT_INSN", "MT_MMAP"}
    THEN visitor
    ELSE SeekHandleInsnSeq(visitor, entry.insnSeq)

\* The loop of TraceMm::SeekInsn(index): [result, rd].
RECURSIVE SeekLoop(_, _, _, _)
SeekLoop(data, rd, visitor, index) ==
    IF rd.cur_ = length_
    THEN [result |-> "invalid_argument", rd |-> rd]
    ELSE LET prev == rd.cur_
             r == ReaderVisitOne(data, rd, 0, kSizeMax)
             visited == SeekVisit(visitor, r.entry)
         IN IF r.err
            THEN [result |-> "runtime_error", rd |-> r.rd]
            ELSE IF visited.insnIndex = index
                 THEN [result |-> "ok",
                       rd |-> [cur_ |-> prev, entryIndex_ |-> r.rd.entryIndex_ - 1]]
                 ELSE SeekLoop(data, r.rd, visited, index)

\* TraceMm::SeekInsn(index): rewind to just past the header, then the loop.
SeekInsn(data, index) ==
    SeekLoop(data, [cur_ |-> HeaderAlignedLength, entryIndex_ |-> 0], SeekInit, index)

\* Next() that takes a cursor with less than a Tlv left for the end.
ReaderNext_ShortIsEnd(data, rd) ==
    IF ~Have(rd.cur_, TlvFixedLength)
    THEN [result |-> "stop_iteration", rd |-> rd, py |-> <<>>]
    ELSE LET r == ReaderVisitOne(data, rd, 0, kSizeMax)
         IN IF r.err
            THEN [result |-> "runtime_error", rd |-> r.rd, py |-> <<>>]
            ELSE [result |-> "ok", rd |-> r.rd,
                  py |-> [index |-> r.index, entry |-> r.entry]]

\* TraceMm::Next(): [result, rd, py]; py is the entry object made by
\* TraceEntry2Py, [index, entry].
ReaderNext(data, rd) ==
    IF rd.cur_ = length_
    THEN [result |-> "stop_iteration", rd |-> rd, py |-> <<>>]
    ELSE LET r == ReaderVisitOne(data, rd, 0, kSizeMax)
         IN IF r.err
            THEN [result |-> "runtime_error", rd |-> r.rd, py |-> <<>>]
            ELSE [result |-> "ok", rd |-> r.rd,
                  py |-> [index |-> r.index, entry |-> r.entry]]

\* The loop of TraceMm::Visit(start, end) with the Dumper visitor, whose
\* operator() returns 0 for every entry: "ok" or "EINVAL".
RECURSIVE VisitLoop(_, _, _, _)
VisitLoop(data, rd, start, end) ==
    IF rd.cur_ = length_
    THEN "ok"
    ELSE LET r == ReaderVisitOne(data, rd, start, end)
         IN IF r.err THEN "EINVAL" ELSE VisitLoop(data, r.rd, start, end)

\* DumpFile(path, start, end): VisitFile<Dumper> makes a TraceMm of its own
\* on the file, visits it and deletes it.  Dumper::Init returns what
\* Disasm::Init returns, and Visit returns that value when it is negative.
DumpFile(data, start, end) ==
    LET err == DisasmInitResult(header_.machineType, header_.endianness,
                                header_.wordSize)
    IN IF err # "ok"
       THEN err
       ELSE VisitLoop(data, [cur_ |-> HeaderAlignedLength, entryIndex_ |-> 0],
                      start, end)

\* The records of the files read: four tags, each with the length of a
\* well-formed record of its type for W = 4 and a one-byte value, and three
\* insnSeq values, one of them the largest; and a record whose tag is none
\* of the enumerated ones.
ReaderInsnSeqs == {0, 1, kUint32Max}
ReaderRecords ==
    {[tag |-> "MT_LOAD", length |-> 13, insnSeq |-> q] : q \in ReaderInsnSeqs}
    \cup {[tag |-> "MT_INSN_EXEC", length |-> 8, insnSeq |-> q] : q \in ReaderInsnSeqs}
    \cup {[tag |-> "MT_INSN", length |-> 13, insnSeq |-> q] : q \in ReaderInsnSeqs}
    \cup {[tag |-> "MT_MMAP", length |-> 17, insnSeq |-> 0]}
    \cup {[tag |-> "unknown", length |-> 8, insnSeq |-> 0]}

Files == UNION {[1..n -> ReaderRecords] : n \in 0..MaxFileRecords}

\* The sizes of the files that hold the records of data: the file ends where
\* the last record ends, or two bytes later, or one byte before (the Tlv of
\* the last record is there, its end is not), or two bytes into the last
\* record.
FileSizes(data) ==
    {End(data), End(data) + 2}
    \cup (IF data = <<>> THEN {}
          ELSE {End(data) - 1, OffsetOf(data, Len(data)) + 2})

\* The entry windows [start, end) DumpFile is called with.
Windows == (0..MaxFileRecords) \X ((0..MaxFileRecords) \cup {kSizeMax})

\* A TraceMm constructed on a file and initialised: the cursor is just past
\* the header.
InitReader ==
    /\ header_ = [endianness |-> "Little", wordSize |-> 4, machineType |-> "EM_386"]
    /\ data_ \in Files
    /\ length_ \in FileSizes(data_)
    /\ traceFile = [magic |-> <<"4", "M">>, size |-> length_,
                    headerLength |-> HeaderFixedLength]
    /\ cur_ = HeaderAlignedLength
    /\ entryIndex_ = 0
    /\ out = NoCall
    /\ trace_ = <<>> /\ code_ = <<>> /\ text_ = <<>>
    /\ phase = "idle"
    /\ host = "Little"
    /\ disk = [header |-> <<>>, files |-> <<>>] /\ loaded = <<>>
    /\ memState_ = SeededState(0)
    /\ regState_ = SeededState(0)
    /\ readOf = [mem |-> <<>>, reg |-> <<>>] /\ ret = NoRet /\ vec = NoVec
    /\ PUIdle

Called(call, arg, result, py) ==
    [call |-> call, arg |-> arg, result |-> result, py |-> py,
     prevCall |-> out.call, prevArg |-> out.arg, prevResult |-> out.result]

\* seek_insn(index) from Python.
CallSeekInsn ==
    \E index \in 0..MaxSeekIndex :
        LET r == SeekInsn(data_, index)
        IN /\ cur_' = r.rd.cur_
           /\ entryIndex_' = r.rd.entryIndex_
           /\ out' = Called("SeekInsn", index, r.result, <<>>)
           /\ UNCHANGED <<udVars, readOf, ret, puVars, vec, traceFile, data_, length_,
                          trace_, code_, text_, phase, header_, host, disk, loaded>>

\* One step of the Python iterator.
CallNext ==
    LET r == ReaderNext(data_, [cur_ |-> cur_, entryIndex_ |-> entryIndex_])
    IN /\ cur_' = r.rd.cur_
       /\ entryIndex_' = r.rd.entryIndex_
       /\ out' = Called("Next", 0, r.result, r.py)
       /\ UNCHANGED <<udVars, readOf, ret, puVars, vec, traceFile, data_, length_,
                      trace_, code_, text_, phase, header_, host, disk, loaded>>

\* dump_file(path, start, end) from Python on the file the reader has open.
CallDumpFile ==
    \E w \in Windows :
        /\ out' = [NoCall EXCEPT !.call = "DumpFile", !.arg = w,
                                 !.result = DumpFile(data_, w[1], w[2])]
        /\ UNCHANGED <<udVars, readOf, ret, puVars, vec, traceFile, data_, length_, cur_,
                       entryIndex_, trace_, code_, text_, phase, header_, host,
                       disk, loaded>>

NextReader == CallSeekInsn \/ CallNext

\* A reader loaded on a file, driven by seek_insn and the iterator.
SpecReader == InitReader /\ [][NextReader]_vars

NextDump == CallDumpFile

\* The same files, dumped with every entry window.
SpecDump == InitReader /\ [][NextDump]_vars

\* The records 1..n of data are read without a format error: each lies
\* within the file and has an enumerated tag.
Parses(data, n) ==
    \A j \in 1..n : data[j].tag \in KnownTags /\ OffsetOf(data, j + 1) <= length_

\* The whole file is read without a format error.
WellFormed(data) == Parses(data, Len(data)) /\ length_ = End(data)

\* The records that carry an insnSeq the seek counts.
CarriesInsnSeq(entry) == entry.tag \notin {"MT_INSN", "MT_MMAP"}

\* The positions (1-based) at which a dynamic instruction starts: a counted
\* record that is the first one, or whose insnSeq differs from that of the
\* counted record before it.
InsnStarts(data) ==
    LET counted == {i \in 1..Len(data) : CarriesInsnSeq(data[i])}
    IN {i \in counted :
           LET before == {j \in counted : j < i}
           IN before = {} \/ data[Max(before)].insnSeq # data[i].insnSeq}

\* The start of dynamic instruction k (0-based).
InsnStart(data, k) ==
    CHOOSE i \in InsnStarts(data) : Cardinality({j \in InsnStarts(data) : j < i}) = k

\* C10: on a file without a format error, for every k below the number of
\* dynamic instructions of the stream, SeekInsn(k) leaves the cursor at the
\* first record of dynamic instruction k,
\* and the iterator step that follows yields that record: its insnSeq is that
\* of instruction k and its index is its position in the file.
C10_SeekLeavesCursorAtInsn ==
    /\ WellFormed(data_) /\ out.call = "SeekInsn"
           /\ out.arg < Cardinality(InsnStarts(data_)) =>
        /\ out.result = "ok"
        /\ cur_ = OffsetOf(data_, InsnStart(data_, out.arg))
        /\ entryIndex_ = InsnStart(data_, out.arg) - 1
    /\ WellFormed(data_) /\ out.call = "Next" /\ out.prevCall = "SeekInsn"
           /\ out.prevArg < Cardinality(InsnStarts(data_)) =>
        /\ out.result = "ok"
        /\ out.py.entry.insnSeq = data_[InsnStart(data_, out.prevArg)].insnSeq
        /\ out.py.index = InsnStart(data_, out.prevArg) - 1

----------------------------------------------------------------------------
(* Properties of the reader's walk over a file.                            *)

\* The positions (1-based) at which the seek's insnIndex goes up: a counted
\* record whose insnSeq differs from that of the counted record before it,
\* or from std::numeric_limits<std::uint32_t>::max() when it is the first.
CountedStarts(data) ==
    LET counted == {i \in 1..Len(data) : CarriesInsnSeq(data[i])}
    IN {i \in counted :
           LET before == {j \in counted : j < i}
               prevInsnSeq == IF before = {} THEN kUint32Max
                              ELSE data[Max(before)].insnSeq
           IN prevInsnSeq # data[i].insnSeq}

\* The value of insnIndex once record i has been visited.
InsnIndexAt(data, i) == Cardinality({j \in CountedStarts(data) : j <= i}) - 1

\* C11: SeekInsn(k) throws the not-found error (std::invalid_argument) exactly
\* when the whole file is read without a format error and insnIndex is still
\* below k at its end; when the record that takes insnIndex to k is the last
\* record of the file, the seek succeeds and leaves the cursor at it.
C11_NotFoundIffStreamEndsFirst ==
    out.call = "SeekInsn" =>
        /\ out.result = "invalid_argument" <=>
               (WellFormed(data_) /\ InsnIndexAt(data_, Len(data_)) < out.arg)
        /\ (/\ WellFormed(data_)
            /\ Len(data_) \in CountedStarts(data_)
            /\ InsnIndexAt(data_, Len(data_)) = out.arg)
           => (/\ out.result = "ok"
               /\ cur_ = OffsetOf(data_, Len(data_))
               /\ entryIndex_ = Len(data_) - 1)

\* A seek on a stream with two dynamic instructions, the second of them
\* starting at the last record: SeekInsn(1) has succeeded there.
C11_Witness ==
    /\ out.call = "SeekInsn" /\ out.arg = 1 /\ out.result = "ok"
    /\ WellFormed(data_)
    /\ Len(data_) = 2
    /\ CountedStarts(data_) = {1, 2}
    /\ cur_ = OffsetOf(data_, 2)

\* The sum of the aligned lengths of the records of data.
RECURSIVE SumAlignedLengths(_)
SumAlignedLengths(data) ==
    IF data = <<>> THEN 0
    ELSE GetAlignedLength(Head(data).length) + SumAlignedLengths(Tail(data))

\* C12: the reader signals the end of the stream (StopIteration from Next,
\* the not-found error from SeekInsn) only with the cursor at the end of the
\* file exactly, and then the header's aligned length plus the aligned
\* lengths of all records is the file size; a Next that does not yield an
\* entry with the cursor anywhere else is a format error, not exhaustion.
C12_EndOfStreamOnlyAtExactEnd ==
    /\ out.result \in {"stop_iteration", "invalid_argument"} =>
        /\ cur_ = length_
        /\ length_ = HeaderAlignedLength + SumAlignedLengths(data_)
    /\ out.call = "Next" /\ out.result # "ok" =>
        (out.result = "stop_iteration" <=> cur_ = length_)
    /\ out.call = "Next" /\ out.result # "ok" /\ cur_ # length_ =>
        out.result = "runtime_error"

\* The iterator has yielded both records of a two-record file and then
\* signalled exhaustion.
C12_Witness ==
    /\ out.call = "Next" /\ out.result = "stop_iteration"
    /\ out.prevCall = "Next" /\ out.prevResult = "ok"
    /\ Len(data_) = 2 /\ entryIndex_ = 2
    /\ cur_ = length_

\* Record i of data runs past the end of the file or has a tag that is none
\* of the enumerated ones.
BadRecord(data, i) ==
    OffsetOf(data, i + 1) > length_ \/ data[i].tag \notin KnownTags

\* C13: a walk by Visit with any entry window [start, end) over a file that
\* holds a record running past the end of the file or a record with a tag
\* outside the enumerated set returns a format error.
C13_BadRecordIsFormatError ==
    out.call = "DumpFile" /\ (\E i \in 1..Len(data_) : BadRecord(data_, i)) =>
        out.result = "EINVAL"

----------------------------------------------------------------------------
(* TraceMmBase::Load: opening a trace file.  A file is [magic, size,       *)
(* headerLength]: its first two bytes, its size in bytes and the length    *)
(* field of its header record.                                             *)

\* MmapFile(path, minSize): TRUE when the file is mapped.
MmapFile(size, minSize) == size >= minSize

\* The switch of TraceMmBase::Visit on data[0] << 8 | data[1]: the
\* [endianness, wordSize] of the TraceMm it creates, <<>> in the default case.
SelectTraceMm(magic) ==
    CASE magic = <<"M", "4">> -> [endianness |-> "Big", wordSize |-> 4]
      [] magic = <<"M", "8">> -> [endianness |-> "Big", wordSize |-> 8]
      [] magic = <<"4", "M">> -> [endianness |-> "Little", wordSize |-> 4]
      [] magic = <<"8", "M">> -> [endianness |-> "Little", wordSize |-> 8]
      [] OTHER -> <<>>

\* TraceMm::Init without the check that the fixed part of the header is there.
TraceMmInit_NoHave(size, wordSize, headerLength) ==
    IF AlignedLength(headerLength, wordSize) > size
    THEN [err |-> TRUE, cur_ |-> 0]
    ELSE [err |-> FALSE, cur_ |-> AlignedLength(headerLength, wordSize)]

\* TraceMm::Init on a TraceMm just constructed (cur_ at 0, end_ at size):
\* [err, cur_].
TraceMmInit(size, wordSize, headerLength) ==
    IF ~(0 + HeaderFixedLength <= size)
    THEN [err |-> TRUE, cur_ |-> 0]
    ELSE IF 0 + AlignedLength(headerLength, wordSize) > size
         THEN [err |-> TRUE, cur_ |-> 0]
         ELSE [err |-> FALSE, cur_ |-> 0 + AlignedLength(headerLength, wordSize)]

\* TraceMmBase::Visit on a file, up to the call of the visitor: [err, trace];
\* trace is the TraceMm handed to the visitor.
TraceMmBaseVisit(f) ==
    LET failed == [err |-> TRUE, trace |-> <<>>]
    IN IF ~MmapFile(f.size, 2) THEN failed
       ELSE LET selected == SelectTraceMm(f.magic)
            IN IF selected = <<>> THEN failed
               ELSE LET init == TraceMmInit(f.size, selected.wordSize, f.headerLength)
                    IN IF init.err THEN failed
                       ELSE [err |-> FALSE,
                             trace |-> [endianness |-> selected.endianness,
                                        wordSize |-> selected.wordSize,
                                        length_ |-> f.size,
                                        cur_ |-> init.cur_,
                                        entryIndex_ |-> 0]]

\* The bytes a file starts with.
MagicBytes == {"M", "4", "8", "X"}

\* The files given to Load.
TraceFiles ==
    [magic : MagicBytes \X MagicBytes, size : 0..MaxFileSize,
     headerLength : 0..MaxHeaderLength]

\* A file on disk and no reader yet.
InitOpen ==
    /\ traceFile \in TraceFiles
    /\ data_ = <<>> /\ length_ = 0 /\ cur_ = 0 /\ out = NoCall
    /\ memState_ = SeededState(0)
    /\ regState_ = SeededState(0)
    /\ readOf = [mem |-> <<>>, reg |-> <<>>] /\ ret = NoRet /\ vec = NoVec
    /\ PUIdle
    /\ BuildIdle

\* TraceMmBase::Load(path): the reader, or nullptr when Visit fails.
CallLoad ==
    LET r == TraceMmBaseVisit(traceFile)
    IN /\ out = NoCall
       /\ out' = [NoCall EXCEPT !.call = "Load",
                                !.result = IF r.err THEN "nullptr" ELSE "ok"]
       /\ header_' = IF r.err THEN header_
                     ELSE [header_ EXCEPT !.endianness = r.trace.endianness,
                                          !.wordSize = r.trace.wordSize]
       /\ length_' = IF r.err THEN length_ ELSE r.trace.length_
       /\ cur_' = IF r.err THEN cur_ ELSE r.trace.cur_
       /\ entryIndex_' = IF r.err THEN entryIndex_ ELSE r.trace.entryIndex_
       /\ UNCHANGED <<udVars, readOf, ret, puVars, vec, traceFile, data_, trace_, code_,
                      text_, phase, host, disk, loaded>>

NextOpen == CallLoad

SpecOpen == InitOpen /\ [][NextOpen]_vars

\* The pairing of magic and reader that the format defines.
MagicOf(endianness, wordSize) ==
    IF endianness = "Big"
    THEN <<"M", IF wordSize = 4 THEN "4" ELSE "8">>
    ELSE <<IF wordSize = 4 THEN "4" ELSE "8", "M">>

\* C14: Load returns a reader exactly for a file that starts with M4, M8, 4M
\* or 8M, holds the fixed part of the header and is not shorter than the
\* header record's aligned length; the reader is the (big,4), (big,8),
\* (little,4), (little,8) one respectively, positioned just past the header.
\* Every other file gives no reader.
C14_MagicSelectsReader ==
    out.call = "Load" =>
        LET w == IF "4" \in {traceFile.magic[1], traceFile.magic[2]} THEN 4 ELSE 8
            goodMagic == traceFile.magic \in
                {<<"M", "4">>, <<"M", "8">>, <<"4", "M">>, <<"8", "M">>}
            wholeHeader ==
                /\ traceFile.size >= HeaderFixedLength
                /\ traceFile.size >= AlignedLength(traceFile.headerLength, w)
        IN /\ out.result = "ok" <=> (goodMagic /\ wholeHeader)
           /\ out.result # "ok" => out.result = "nullptr" /\ length_ = 0 /\ cur_ = 0
           /\ out.result = "ok" =>
               /\ traceFile.magic = MagicOf(header_.endianness, header_.wordSize)
               /\ header_.wordSize \in {4, 8}
               /\ header_.endianness \in {"Big", "Little"}
               /\ length_ = traceFile.size
               /\ cur_ = AlignedLength(traceFile.headerLength, header_.wordSize)

\* A big-endian 8-byte-word file whose header record is padded to 16 bytes
\* has been opened.
C14_Witness ==
    /\ out.call = "Load" /\ out.result = "ok"
    /\ traceFile.magic = <<"M", "8">>
    /\ header_.endianness = "Big" /\ header_.wordSize = 8
    /\ cur_ = 16 /\ length_ > cur_

----------------------------------------------------------------------------
(* The overlap limit of UdState::AddDefs: one address space that receives  *)
(* a run of adjacent 1-byte stores, at most one read of what was stored,   *)
(* and then one store that spans some of them.                             *)

\* memState_.AddDefs(startAddr, size) as Ud::operator()(LdStEntry) calls it
\* for a store, the return kept.
DoAddDefsRet(call, startAddr, size) ==
    LET r == AddDefs(memState_, startAddr, size)
    IN /\ memState_' = r.state
       /\ ret' = [call |-> call, startAddr |-> startAddr, size |-> size,
                  err |-> r.err, before |-> memState_]

\* The number of 1-byte stores made so far.
StoresDone == Len(memState_.defs_) - 1

\* A 1-byte store at the address after the last one.
StoreNext ==
    /\ ret.call # "StoreSpan"
    /\ StoresDone < MaxStores
    /\ DoAddDefsRet("StoreNext", StoresDone, 1)
    /\ UNCHANGED <<regState_, readOf, puVars, vec, buildVars, readerVars>>

\* One read of all the bytes stored so far and of the byte after them.
LoadStored ==
    /\ ret.call # "StoreSpan"
    /\ memState_.uses_ = <<>>
    /\ DoAddUses(0, StoresDone + 1)

\* A store over the bytes [startAddr, startAddr + size).
StoreSpan ==
    \E startAddr \in 0..MaxSpanStart :
        \E size \in 1..(MaxStores + 1 - startAddr) :
            /\ ret.call # "StoreSpan"
            /\ DoAddDefsRet("StoreSpan", startAddr, size)
            /\ UNCHANGED <<regState_, readOf, puVars, vec, buildVars, readerVars>>

NextOverlap == StoreNext \/ LoadStored \/ StoreSpan

SpecOverlap == InitUdState /\ [][NextOverlap]_vars

\* The live intervals of the map m that the range [startAddr, endAddr) overlaps.
Overlapped(m, startAddr, endAddr) ==
    {k \in DOMAIN m : m[k].startAddr < endAddr /\ startAddr < k}

\* C15: AddDefs(start, size) returns the error exactly when [start, start +
\* size) overlaps more than 32 live intervals; in particular a store that
\* spans 33 disjoint 1-byte stores returns it.
C15_ErrorIffMoreThan32Overlapped ==
    ret.call # "none" =>
        LET endAddr == ret.startAddr + ret.size
            overlapped == Overlapped(ret.before.addressSpace_, ret.startAddr, endAddr)
            stores == {d \in 1..(Len(ret.before.defs_) - 1) :
                          /\ ret.before.defs_[d + 1].endAddr =
                                 ret.before.defs_[d + 1].startAddr + 1
                          /\ ret.startAddr <= ret.before.defs_[d + 1].startAddr
                          /\ ret.before.defs_[d + 1].endAddr <= endAddr}
        IN /\ ret.err <=> Cardinality(overlapped) > 32
           /\ Cardinality(stores) >= 33 => ret.err

\* 33 adjacent 1-byte stores, then a store of exactly those 33 bytes, which
\* returned the error.
C15_Witness ==
    /\ ret.call = "StoreSpan" /\ ret.err
    /\ ret.startAddr = 0 /\ ret.size = 33
    /\ Len(ret.before.defs_) - 1 >= 33
    /\ Cardinality(Overlapped(ret.before.addressSpace_, 0, 33)) = 33

\* C16: when AddDefs returns the error, the live-writer map, the defs, the
\* uses and the partial-use table of the address space are as they were
\* before the call.
C16_ErrorLeavesStateUnchanged ==
    ret.call # "none" /\ ret.err =>
        /\ memState_.addressSpace_ = ret.before.addressSpace_
        /\ memState_.defs_ = ret.before.defs_
        /\ memState_.uses_ = ret.before.uses_
        /\ memState_.partialUses_ = ret.before.partialUses_

\* An AddDefs that returned the error on an address space that holds uses, a
\* partial-use entry and more than 32 live intervals.
C16_Witness ==
    /\ ret.call = "StoreSpan" /\ ret.err
    /\ Len(memState_.uses_) > 32
    /\ \E u \in UseIndices(memState_) : PUFind(memState_.partialUses_, u) # -1
    /\ Cardinality(DOMAIN memState_.addressSpace_) > 32
    /\ Len(memState_.defs_) > 33

----------------------------------------------------------------------------
(* TraceMm::Visit<Ud> over a trace file: the builder fed with the records  *)
(* of data_, one VisitOne at a time.                                       *)

\* LdStEntry::kValueOffset for W = 4.
kValueOffset == TlvFixedLength + 4 + 4

\* LdStEntry::GetSize: the length of the record less the offset of its
\* value, a subtraction in W that wraps when the length is the smaller.
ValueSize(entry) == (entry.length - kValueOffset) % Mod

\* The switch of TraceMm::VisitOne on the tag, calling the Ud visitor:
\* [err, ud].
VisitEntry(ud, entry) ==
    CASE entry.tag \in LdStTags ->
             VisitLdStEntry(ud, entry.tag, entry.insnSeq, entry.addr, ValueSize(entry))
      [] entry.tag = "MT_INSN" ->
             VisitInsnEntry(ud, entry.insnSeq, entry.pc, entry.value)
      [] entry.tag = "MT_INSN_EXEC" -> VisitInsnExecEntry(ud, entry.insnSeq)
      [] entry.tag \in LdStNxTags ->
             VisitLdStNxEntry(ud, entry.tag, entry.insnSeq, entry.addr, entry.size)
      [] entry.tag = "MT_MMAP" -> VisitMmapEntry(ud)
      [] OTHER -> [err |-> TRUE, ud |-> ud]

\* A record of the stream: [tag, length, insnSeq, addr, size, pc, value].
StreamRecord(tag, length, insnSeq, addr, size, pc, value) ==
    [tag |-> tag, length |-> length, insnSeq |-> insnSeq, addr |-> addr,
     size |-> size, pc |-> pc, value |-> value]

\* The records of the streams built from: loads, stores and register
\* accesses of the two bytes at address 1, loads of the byte at address 0
\* and of the byte at the top address, instructions of one opcode byte at
\* pc 1, executions and a mapping.
StreamInsnSeqs == {0, 1, 2}
StreamRecords ==
    {StreamRecord(tag, 14, q, 1, 2, 0, <<>>) :
        tag \in {"MT_LOAD", "MT_STORE"}, q \in StreamInsnSeqs}
    \cup {StreamRecord("MT_LOAD", 13, 1, 0, 1, 0, <<>>),
          StreamRecord("MT_LOAD", 13, 1, WMax, 1, 0, <<>>),
          StreamRecord("MT_GET_REG", 14, 1, 1, 2, 0, <<>>),
          StreamRecord("MT_REG", 14, 2, 1, 2, 0, <<>>),
          StreamRecord("MT_PUT_REG_NX", 16, 1, 1, 2, 0, <<>>),
          StreamRecord("MT_MMAP", 17, 0, 0, 0, 0, <<>>)}
    \cup {StreamRecord("MT_INSN_EXEC", 8, q, 0, 0, 0, <<>>) : q \in StreamInsnSeqs}
    \cup {StreamRecord("MT_INSN", 13, q, 0, 1, 1, <<144>>) : q \in StreamInsnSeqs}

StreamFiles == UNION {[1..n -> StreamRecords] : n \in 0..MaxStreamRecords}

\* ud_file on a well-framed little-endian trace of EM_386: the reader just
\* past the header and the builder initialised by Visit.
InitStream ==
    /\ header_ = [endianness |-> "Little", wordSize |-> 4, machineType |-> "EM_386"]
    /\ host = "Little"
    /\ data_ \in StreamFiles
    /\ length_ = End(data_)
    /\ traceFile = [magic |-> <<"4", "M">>, size |-> length_,
                    headerLength |-> HeaderFixedLength]
    /\ cur_ = HeaderAlignedLength
    /\ entryIndex_ = 0
    /\ out = NoCall
    /\ LET r == UdInitCreate(header_.machineType, header_.endianness,
                             header_.wordSize, 0)
       IN /\ trace_ = r.ud.trace_ /\ code_ = r.ud.code_ /\ text_ = r.ud.text_
          /\ regState_ = r.ud.regState_ /\ memState_ = r.ud.memState_
          /\ phase = IF r.err THEN "failed" ELSE "building"
    /\ disk = [header |-> <<>>, files |-> <<>>]
    /\ loaded = <<>>
    /\ readOf = [mem |-> <<>>, reg |-> <<>>] /\ ret = NoRet /\ vec = NoVec
    /\ PUIdle

\* One turn of the loop of TraceMm::Visit: VisitOne on the record at the
\* cursor, with the window [0, SIZE_MAX).
VisitNext ==
    /\ phase = "building"
    /\ cur_ # length_
    /\ LET r == VisitEntry(UdNow, data_[RecordAt(data_, cur_)])
       IN /\ SetUd(r.ud)
          /\ phase' = IF r.err THEN "failed" ELSE "building"
          /\ entryIndex_' = IF r.err THEN entryIndex_ ELSE entryIndex_ + 1
          /\ cur_' = IF r.err THEN cur_
                     ELSE cur_ + GetAlignedLength(data_[RecordAt(data_, cur_)].length)
    /\ UNCHANGED <<readOf, ret, puVars, vec, traceFile, data_, length_, out, header_,
                   host, disk, loaded>>

\* The loop has ended: visitor.Complete().
CompleteAtEnd == cur_ = length_ /\ Complete

NextStream == VisitNext \/ CompleteAtEnd

SpecStream == InitStream /\ [][NextStream]_vars

\* The insnSeq of the instruction processed last before record n + 1: that of
\* the last record among 1..n that carries one, and the seed entry's
\* codeIndex 0 when there is none.
LastInsnSeq(data, n) ==
    LET carrying == {i \in 1..n : CarriesInsnSeq(data[i])}
    IN IF carrying = {} THEN 0 ELSE data[Max(carrying)].insnSeq

\* Record i of data is a non-MMAP, non-INSN record whose insnSeq differs from
\* that of the instruction processed before it.
OpensEntry(data, i) ==
    CarriesInsnSeq(data[i]) /\ data[i].insnSeq # LastInsnSeq(data, i - 1)

\* C17: while a build runs, the record being processed opens a new trace
\* entry exactly when it is a non-MMAP, non-INSN record whose insnSeq differs
\* from that of the previously processed instruction (the seed entry, of
\* codeIndex 0, before the first one); the entry before it is flushed with
\* the current use and def counts as its end indices, the new entry has that
\* insnSeq as codeIndex and the same counts as its start indices; every other
\* record, INSN and MMAP among them, leaves the trace as it is.  When the
\* build completes, trace.len is 1 plus the number of such records.
C17_EntryOpenedOnInsnSeqChange ==
    [][/\ (phase = "building" /\ cur_ # length_) =>
            LET rec == data_[entryIndex_ + 1]
                t == Len(trace_)
            IN IF OpensEntry(data_, entryIndex_ + 1)
               THEN /\ Len(trace_') = t + 1
                    /\ trace_'[t + 1].codeIndex = rec.insnSeq
                    /\ trace_'[t + 1].regUseStartIndex = Len(regState_.uses_)
                    /\ trace_'[t + 1].memUseStartIndex = Len(memState_.uses_)
                    /\ trace_'[t + 1].regDefStartIndex = Len(regState_.defs_)
                    /\ trace_'[t + 1].memDefStartIndex = Len(memState_.defs_)
                    /\ trace_'[t] = [trace_[t] EXCEPT
                                        !.regUseEndIndex = Len(regState_.uses_),
                                        !.memUseEndIndex = Len(memState_.uses_),
                                        !.regDefEndIndex = Len(regState_.defs_),
                                        !.memDefEndIndex = Len(memState_.defs_)]
                    /\ \A j \in 1..(t - 1) : trace_'[j] = trace_[j]
               ELSE trace_' = trace_
       /\ phase' = "complete" =>
            Len(trace_') = 1 + Cardinality({i \in 1..Len(data_) : OpensEntry(data_, i)})
      ]_vars

\* A build has completed on a stream of an INSN record and two records of
\* different instructions: the trace holds the seed and two entries.
C17_Witness ==
    /\ phase = "complete"
    /\ Len(data_) = 3
    /\ data_[1].tag = "MT_INSN"
    /\ OpensEntry(data_, 2) /\ OpensEntry(data_, 3)
    /\ Len(trace_) = 3

\* C18: the step that processes an INSN record whose insnSeq is the length of
\* the code table appends exactly the entry {pc, textIndex = old text length,
\* textSize = opcode length} to code and the opcode bytes to text; for any
\* other insnSeq the build fails at that record with code, text and trace
\* unchanged; no other record changes code or text.  So code.len is 1 plus
\* the number of INSN records accepted so far.
C18_InsnAcceptedIffSeqIsCodeLen ==
    [][/\ (phase = "building" /\ cur_ # length_) =>
            LET rec == data_[entryIndex_ + 1]
            IN IF rec.tag = "MT_INSN"
               THEN IF rec.insnSeq = Len(code_)
                    THEN /\ phase' = "building"
                         /\ entryIndex_' = entryIndex_ + 1
                         /\ code_' = Append(code_, [pc |-> rec.pc,
                                                    textIndex |-> Len(text_),
                                                    textSize |-> rec.length - 12])
                         /\ text_' = text_ \o rec.value
                         /\ Len(text_') = Len(text_) + (rec.length - 12)
                    ELSE /\ phase' = "failed"
                         /\ entryIndex_' = entryIndex_
                         /\ code_' = code_ /\ text_' = text_ /\ trace_' = trace_
               ELSE code_' = code_ /\ text_' = text_
       /\ Len(code_') =
            1 + Cardinality({i \in 1..entryIndex_' : data_[i].tag = "MT_INSN"})
      ]_vars

\* Two INSN records were accepted, the second one's opcode after the first
\* one's in text, and a third one was rejected.
C18_Witness ==
    /\ phase = "failed"
    /\ Len(code_) = 3
    /\ code_[3] = [pc |-> 1, textIndex |-> 1, textSize |-> 1]
    /\ Len(text_) = 2
    /\ data_[3].tag = "MT_INSN" /\ data_[3].insnSeq # 3

\* C19: the build of a trace that holds only the header does not fail, and
\* once it has completed the trace is the seed entry alone, of codeIndex 0,
\* with empty use ranges and the def ranges [0, 1); code is the seed entry
\* alone and text is empty; each address space holds the catch-all def, of
\* index 0, no use and no partial use.
C19_HeaderOnlyBuildLeavesSeeds ==
    data_ = <<>> /\ phase # "idle" =>
        /\ phase \in {"building", "complete"}
        /\ phase = "complete" =>
            /\ trace_ = <<[codeIndex |-> 0,
                           regUseStartIndex |-> 0, regUseEndIndex |-> 0,
                           memUseStartIndex |-> 0, memUseEndIndex |-> 0,
                           regDefStartIndex |-> 0, regDefEndIndex |-> 1,
                           memDefStartIndex |-> 0, memDefEndIndex |-> 1]>>
            /\ code_ = <<[pc |-> 0, textIndex |-> 0, textSize |-> 0]>>
            /\ text_ = <<>>
            /\ \A s \in {regState_, memState_} :
                /\ s.defs_ = <<[startAddr |-> 0, endAddr |-> WMax]>>
                /\ s.uses_ = <<>>
                /\ \A i \in 1..Len(s.partialUses_.entries) :
                       s.partialUses_.entries[i].first = kEmpty
                /\ DOMAIN s.addressSpace_ = {WMax}
                /\ s.addressSpace_[WMax] = [startAddr |-> 0, defIndex |-> 0]
            /\ disk.header # <<>>

\* The build of a header-only trace has completed.
C19_Witness ==
    /\ data_ = <<>> /\ length_ = HeaderAlignedLength
    /\ phase = "complete"
    /\ Len(trace_) = 1 /\ Len(code_) = 1

\* Record i of data is a load, and no store before it wrote one of its bytes.
UnwrittenLoad(data, i) ==
    /\ data[i].tag = "MT_LOAD"
    /\ ValueSize(data[i]) >= 1
    /\ \A j \in 1..(i - 1) :
           data[j].tag = "MT_STORE" =>
               \/ data[j].addr + ValueSize(data[j]) <= data[i].addr
               \/ data[i].addr + ValueSize(data[i]) <= data[j].addr

\* C20: the step that processes a load of n >= 1 bytes, at any address, that
\* no earlier record has written appends at least one memory use, and every
\* use it appends has defIndex 0 and resolves to trace index 0.
C20_UnwrittenReadUsesCatchAll ==
    [][(phase = "building" /\ cur_ # length_
            /\ UnwrittenLoad(data_, entryIndex_ + 1)) =>
           /\ Len(memState_'.uses_) > Len(memState_.uses_)
           /\ \A u \in Len(memState_.uses_)..(Len(memState_'.uses_) - 1) :
                  /\ memState_'.uses_[u + 1] = 0
                  /\ ResolveUse(memState_', u, trace_', "memDefStartIndex").traceIndex = 0
      ]_vars

----------------------------------------------------------------------------
(* The reserve harness: the partial-use table of a UdState as               *)
(* UdState::Init leaves it in a create mode, PartialUses::Init followed by  *)
(* reserve(expectedPartialUseCount), driven by partialUses[k] = v calls.    *)

\* The largest expectedPartialUseCount and the largest use index set.
MaxExpectedCount == 6
MaxReserveKey == 5

ReserveKeys == (0..MaxReserveKey) \cup {kEmpty}

InitReserve ==
    /\ \E expectedPartialUseCount \in 0..MaxExpectedCount :
           puTable = UdStateInit(expectedPartialUseCount).partialUses_
    /\ puLast = <<>>
    /\ memState_ = SeededState(0)
    /\ regState_ = SeededState(0)
    /\ readOf = [mem |-> <<>>, reg |-> <<>>] /\ ret = NoRet /\ vec = NoVec
    /\ BuildIdle
    /\ ReaderIdle

\* partialUses[k] = v for a key not set before.
SetNewKey ==
    \E k \in ReserveKeys \ DOMAIN puLast, v \in TableValues : DoSet(k, v)

\* partialUses[k] = v for a key set before.
SetSameKey ==
    \E k \in DOMAIN puLast, v \in TableValues : DoSet(k, v)

NextReserve == SetNewKey \/ SetSameKey

SpecReserve == InitReserve /\ [][NextReserve]_vars

\* n is a prime number.
IsPrime(n) == n >= 2 /\ \A d \in 2..(n - 1) : n % d # 0

\* The slots of a table that hold a key.
Occupied(p) == {i \in 1..Len(p.entries) : p.entries[i].first # kEmpty}

\* C21: in every state after UdState::Init in a create mode (for every
\* expected partial-use count, 0 included) and after every set or rehash,
\* the size of the partial-use table is a prime number and at least 11.
C21_TableSizePrimeAtLeast11 ==
    /\ IsPrime(Len(puTable.entries))
    /\ Len(puTable.entries) >= kInitialTableSize

\* C22: after every set call the occupied slots are at most half of the
\* table, so a slot is empty and the probe for every key ends at a slot;
\* a set of a key already present changes neither the number of occupied
\* slots nor the size of the table.
C22_LoadAtMostHalfAfterSet ==
    [][/\ Cardinality(Occupied(puTable')) <= Len(puTable'.entries) \div 2
       /\ Occupied(puTable') # 1..Len(puTable'.entries)
       /\ \A k \in ReserveKeys :
              FindPartialUse(puTable'.entries, Len(puTable'.entries), k) # -1
       /\ (DOMAIN puLast' = DOMAIN puLast) =>
              /\ Cardinality(Occupied(puTable')) = Cardinality(Occupied(puTable))
              /\ Len(puTable'.entries) = Len(puTable.entries)
      ]_vars

\* A table that grew from below 11 slots to 13 by rehashes, filled to its
\* maximum load, in which a key was set again.
C22_Witness ==
    /\ Len(puTable.entries) = 13
    /\ puTable.load_ = puTable.maxLoad_
    /\ Cardinality(Occupied(puTable)) = 6
    /\ \E k \in DOMAIN puLast \ {kEmpty} : puLast[k] # Def(0, 1)

----------------------------------------------------------------------------
(* UdBase::Load on a path template and the files found there.  A graph on  *)
(* disk is [path, headerFile, files]: path the raw path as a sequence of    *)
(* characters, headerFile [exists, length, header], files the nine         *)
(* MmVector files, each [exists, length, size, entries] with length the     *)
(* file's length in bytes.                                                  *)

\* The largest number of data files that are missing or short.
MaxDamaged == 1

\* sizeof(BinaryHeader): magic[2], two bytes of padding, two 4-byte enums.
kBinaryHeaderSize == 12
\* sizeof(size_t) of the LP64 build.
kSizeT == 8

\* sizeof(T) of the element types of the MmVectors, for word size w.
SizeOf(T, w) ==
    CASE T = "uint8" -> 1
      [] T = "uint32" -> 4
      [] T = "Def" -> 2 * w
      [] T = "PartialUse" -> IF w = 4 THEN 4 + 2 * w ELSE 8 + 2 * w
      [] T = "InsnInCode" -> w + 4 + 4
      [] T = "InsnInTrace" -> 9 * 4

\* alignof(T).
AlignOf(T, w) ==
    CASE T = "uint8" -> 1
      [] T = "uint32" -> 4
      [] T = "InsnInTrace" -> 4
      [] OTHER -> w

\* n rounded up to a multiple of a.
RoundUp(n, a) == ((n + a - 1) \div a) * a

\* sizeof(Storage): size_t size; T entries[1]; padded to the struct's alignment.
StorageSize(T, w) ==
    RoundUp(RoundUp(kSizeT, AlignOf(T, w)) + SizeOf(T, w), MaxOf(kSizeT, AlignOf(T, w)))

\* MmVector<T>::kOverhead = sizeof(Storage) - sizeof(T).
Overhead(T, w) == StorageSize(T, w) - SizeOf(T, w)

\* std::strstr(path, "{}") finds the placeholder.
HasPlaceholder(path) ==
    \E i \in 1..(Len(path) - 1) : path[i] = "{" /\ path[i + 1] = "}"

\* MmVector::Init with OpenExisting: open, then InitOpened reads kOverhead
\* bytes and maps the entries.  [err, v].
MmInitOpenExisting(file, T, w) ==
    IF ~file.exists THEN [err |-> TRUE, v |-> <<>>]
    ELSE IF file.length < Overhead(T, w) THEN [err |-> TRUE, v |-> <<>>]
    ELSE [err |-> FALSE, v |-> MmOpen(file)]

NoState == [uses_ |-> <<>>, defs_ |-> <<>>,
            partialUses_ |-> [entries |-> <<>>, load_ |-> 0, maxLoad_ |-> 0],
            addressSpace_ |-> <<>>]

\* UdState::Init that does not look at what partialUses_.Init returned.
UdStateInitOpen_IgnorePartialUses(files, w) ==
    LET uses == MmInitOpenExisting(files.uses, "uint32", w)
        defs == MmInitOpenExisting(files.defs, "Def", w)
        partialUses == MmInitOpenExisting(files.partialUses, "PartialUse", w)
    IN IF uses.err THEN [err |-> TRUE, s |-> NoState]
       ELSE IF defs.err THEN [err |-> TRUE, s |-> [NoState EXCEPT !.uses_ = uses.v]]
       ELSE [err |-> FALSE,
             s |-> [uses_ |-> uses.v, defs_ |-> defs.v,
                    partialUses_ |-> [entries |-> partialUses.v, load_ |-> 0,
                                      maxLoad_ |-> Len(partialUses.v) \div 2],
                    addressSpace_ |-> <<>>]]

\* UdState::Init with OpenExisting: uses, defs, partial-uses in this order,
\* the first error returned.  [err, s]; s is the state as far as it got.
UdStateInitOpen(files, w) ==
    LET uses == MmInitOpenExisting(files.uses, "uint32", w)
        defs == MmInitOpenExisting(files.defs, "Def", w)
        partialUses == MmInitOpenExisting(files.partialUses, "PartialUse", w)
    IN IF uses.err THEN [err |-> TRUE, s |-> NoState]
       ELSE IF defs.err THEN [err |-> TRUE, s |-> [NoState EXCEPT !.uses_ = uses.v]]
       ELSE IF partialUses.err
       THEN [err |-> TRUE, s |-> [NoState EXCEPT !.uses_ = uses.v, !.defs_ = defs.v]]
       ELSE [err |-> FALSE,
             s |-> [uses_ |-> uses.v, defs_ |-> defs.v,
                    partialUses_ |-> [entries |-> partialUses.v, load_ |-> 0,
                                      maxLoad_ |-> Len(partialUses.v) \div 2],
                    addressSpace_ |-> <<>>]]

NoUd == [trace_ |-> <<>>, code_ |-> <<>>, text_ |-> <<>>,
         regState_ |-> NoState, memState_ |-> NoState]

\* Ud::Init(header), that is Init(OpenExisting, machineType, endianness, 0):
\* the path template, trace, code, text, the register and the memory state,
\* then the disassembler; the first error is returned.  [err, ud].
UdInitOpenExisting(g, w) ==
    LET trace == MmInitOpenExisting(g.files.trace, "InsnInTrace", w)
        code == MmInitOpenExisting(g.files.code, "InsnInCode", w)
        text == MmInitOpenExisting(g.files.text, "uint8", w)
        regs == UdStateInitOpen(g.files.reg, w)
        mems == UdStateInitOpen(g.files.mem, w)
        ud1 == [NoUd EXCEPT !.trace_ = trace.v]
        ud2 == [ud1 EXCEPT !.code_ = code.v]
        ud3 == [ud2 EXCEPT !.text_ = text.v]
        ud4 == [ud3 EXCEPT !.regState_ = regs.s]
        ud5 == [ud4 EXCEPT !.memState_ = mems.s]
    IN IF ~HasPlaceholder(g.path) THEN [err |-> TRUE, ud |-> NoUd]
       ELSE IF trace.err THEN [err |-> TRUE, ud |-> NoUd]
       ELSE IF code.err THEN [err |-> TRUE, ud |-> ud1]
       ELSE IF text.err THEN [err |-> TRUE, ud |-> ud2]
       ELSE IF regs.err THEN [err |-> TRUE, ud |-> ud4]
       ELSE IF mems.err THEN [err |-> TRUE, ud |-> ud5]
       ELSE [err |-> ~DisasmInit(g.headerFile.header.machineType,
                                 g.headerFile.header.endianness, w),
             ud |-> ud5]

\* UdBase::Load whose Init adds the catch-all code entry as a create mode does.
UdBaseLoad_Seeds(g, hostEndianness) ==
    IF ~HasPlaceholder(g.path) THEN [null |-> TRUE, ud |-> <<>>]
    ELSE IF ~g.headerFile.exists THEN [null |-> TRUE, ud |-> <<>>]
    ELSE IF g.headerFile.length < kBinaryHeaderSize THEN [null |-> TRUE, ud |-> <<>>]
    ELSE LET w == LoadWordSize(g.headerFile.header.magic, hostEndianness)
         IN IF w = 0 THEN [null |-> TRUE, ud |-> <<>>]
            ELSE LET r == UdInitOpenExisting(g, w)
                 IN IF r.err THEN [null |-> TRUE, ud |-> <<>>]
                    ELSE [null |-> FALSE,
                          ud |-> [r.ud EXCEPT !.code_ = Append(@, InsnInCode(0, 0, 0))]]

\* UdBase::Load(rawPath): [null, ud]; a Ud whose Init failed is deleted.
UdBaseLoad(g, hostEndianness) ==
    IF ~HasPlaceholder(g.path) THEN [null |-> TRUE, ud |-> <<>>]
    ELSE IF ~g.headerFile.exists THEN [null |-> TRUE, ud |-> <<>>]
    ELSE IF g.headerFile.length < kBinaryHeaderSize THEN [null |-> TRUE, ud |-> <<>>]
    ELSE LET w == LoadWordSize(g.headerFile.header.magic, hostEndianness)
         IN IF w = 0 THEN [null |-> TRUE, ud |-> <<>>]
            ELSE LET r == UdInitOpenExisting(g, w)
                 IN IF r.err THEN [null |-> TRUE, ud |-> <<>>]
                    ELSE [null |-> FALSE, ud |-> r.ud]

\* ~MmVector on a persistent file: truncated to kOverhead + size * sizeof(T),
\* the size prefix and the entries kept.
DiskFile(v, T, w) ==
    [exists |-> TRUE, length |-> Overhead(T, w) + Len(v) * SizeOf(T, w),
     size |-> Len(v), entries |-> v]

\* The files an address space leaves behind, with their lengths.
UdStateFiles(s, w) ==
    [uses |-> DiskFile(s.uses_, "uint32", w),
     defs |-> DiskFile(s.defs_, "Def", w),
     partialUses |-> DiskFile(s.partialUses_.entries, "PartialUse", w)]

\* The nine data files a Ud leaves behind.
UdFiles(ud, w) ==
    [trace |-> DiskFile(ud.trace_, "InsnInTrace", w),
     code |-> DiskFile(ud.code_, "InsnInCode", w),
     text |-> DiskFile(ud.text_, "uint8", w),
     reg |-> UdStateFiles(ud.regState_, w),
     mem |-> UdStateFiles(ud.memState_, w)]

\* A built graph: the seeds, a store to [1, 3) by instruction 1 and a load of
\* [0, 2) by instruction 2, flushed.
GraphUd ==
    LET ud0 == UdInitCreate("EM_MIPS", "Little", 4, 0).ud
        ud1 == VisitLdStEntry(ud0, "MT_STORE", 1, 1, 2).ud
        ud2 == VisitLdStEntry(ud1, "MT_LOAD", 2, 0, 2).ud
    IN Flush(ud2)

FileNames == {"trace", "code", "text", "reg-uses", "reg-defs", "reg-partial-uses",
              "mem-uses", "mem-defs", "mem-partial-uses"}

\* A file that was removed, or cut to 7 bytes, less than any kOverhead.
Damage(file, kind) ==
    IF kind = "missing" THEN [file EXCEPT !.exists = FALSE]
    ELSE [file EXCEPT !.length = kSizeT - 1]

\* The files with those of `names` damaged.
DamageFiles(files, names, kind) ==
    LET D(name, file) == IF name \in names THEN Damage(file, kind) ELSE file
    IN [trace |-> D("trace", files.trace),
        code |-> D("code", files.code),
        text |-> D("text", files.text),
        reg |-> [uses |-> D("reg-uses", files.reg.uses),
                 defs |-> D("reg-defs", files.reg.defs),
                 partialUses |-> D("reg-partial-uses", files.reg.partialUses)],
        mem |-> [uses |-> D("mem-uses", files.mem.uses),
                 defs |-> D("mem-defs", files.mem.defs),
                 partialUses |-> D("mem-partial-uses", files.mem.partialUses)]]

\* The data file of a name.
FileOf(files, name) ==
    CASE name = "trace" -> files.trace
      [] name = "code" -> files.code
      [] name = "text" -> files.text
      [] name = "reg-uses" -> files.reg.uses
      [] name = "reg-defs" -> files.reg.defs
      [] name = "reg-partial-uses" -> files.reg.partialUses
      [] name = "mem-uses" -> files.mem.uses
      [] name = "mem-defs" -> files.mem.defs
      [] name = "mem-partial-uses" -> files.mem.partialUses

\* The word size the digit of a known magic names.
MagicWordSize(magic) == IF magic \in {<<"M", "4">>, <<"4", "M">>} THEN 4 ELSE 8

GraphPaths == {<<"u", "d">>, <<"u", "{", "}">>, <<"{", "}", "u">>, <<"}", "{">>}
GraphMagics == {<<"M", "4">>, <<"M", "8">>, <<"4", "M">>, <<"8", "M">>, <<"M", "M">>}
GraphMachineTypes == {"EM_MIPS", "EM_386", "EM_PPC"}
HeaderLengths == {0, kBinaryHeaderSize - 1, kBinaryHeaderSize}

InitLoad ==
    /\ \E path \in GraphPaths, headerExists \in BOOLEAN, length \in HeaderLengths,
          magic \in GraphMagics, machineType \in GraphMachineTypes,
          endianness \in {"Little", "Big"},
          names \in SUBSET FileNames, kind \in {"missing", "short"} :
           /\ Cardinality(names) <= MaxDamaged
           /\ names = {} => kind = "missing"
           /\ ~headerExists => length = 0
           /\ disk = [path |-> path,
                      headerFile |-> [exists |-> headerExists, length |-> length,
                                      header |-> [magic |-> magic,
                                                  machineType |-> machineType,
                                                  endianness |-> endianness]],
                      files |-> DamageFiles(UdFiles(GraphUd, MagicWordSize(magic)),
                                            names, kind)]
    /\ host \in {"Little", "Big"}
    /\ phase = "closed"
    /\ loaded = <<>>
    /\ trace_ = <<>> /\ code_ = <<>> /\ text_ = <<>> /\ entryIndex_ = 0
    /\ header_ = [endianness |-> "Little", wordSize |-> 4, machineType |-> "EM_386"]
    /\ memState_ = SeededState(0)
    /\ regState_ = SeededState(0)
    /\ readOf = [mem |-> <<>>, reg |-> <<>>] /\ ret = NoRet /\ vec = NoVec
    /\ PUIdle
    /\ ReaderIdle

\* UdBase::Load(path) on this host.
CallUdBaseLoad ==
    /\ phase = "closed"
    /\ LET r == UdBaseLoad(disk, host)
       IN /\ loaded' = r.ud
          /\ phase' = IF r.null THEN "absent" ELSE "loaded"
    /\ UNCHANGED <<udVars, readOf, ret, puVars, vec, readerVars, trace_, code_, text_,
                   entryIndex_, header_, host, disk>>

\* The query calls of UdBase with every argument in range, each with the
\* value it returns as a sequence.
Queries(ud) ==
    {[call |-> "GetCodesForPc", arg |-> pc, py |-> GetCodesForPc(ud, pc)] : pc \in Pcs}
    \cup {[call |-> "GetPcForCode", arg |-> c, py |-> <<GetPcForCode(ud, c)>>] :
              c \in 0..(Len(ud.code_) - 1)}
    \cup {[call |-> "GetTracesForCode", arg |-> c, py |-> GetTracesForCode(ud, c)] :
              c \in 0..(Len(ud.code_) - 1)}
    \cup {[call |-> "GetCodeForTrace", arg |-> t, py |-> <<GetCodeForTrace(ud, t)>>] :
              t \in TraceIndices(ud)}
    \cup {[call |-> "GetRegUsesForTrace", arg |-> t, py |-> GetRegUsesForTrace(ud, t)] :
              t \in TraceIndices(ud)}
    \cup {[call |-> "GetMemUsesForTrace", arg |-> t, py |-> GetMemUsesForTrace(ud, t)] :
              t \in TraceIndices(ud)}
    \cup {[call |-> "GetTraceForRegUse", arg |-> u, py |-> <<GetTraceForRegUse(ud, u)>>] :
              u \in UseIndices(ud.regState_)}
    \cup {[call |-> "GetTraceForMemUse", arg |-> u, py |-> <<GetTraceForMemUse(ud, u)>>] :
              u \in UseIndices(ud.memState_)}

\* A query on the handle Load returned; the methods are const.
CallQuery ==
    /\ phase = "loaded"
    /\ \E q \in Queries(loaded) :
           out' = [NoCall EXCEPT !.call = q.call, !.arg = q.arg, !.py = q.py]
    /\ UNCHANGED <<udVars, readOf, ret, puVars, vec, traceFile, data_, length_, cur_,
                   buildVars>>

\* The handle is destroyed: each ~MmVector truncates its file to
\* kOverhead + size * sizeof(T).
CloseLoaded ==
    /\ phase = "loaded"
    /\ disk' = [disk EXCEPT
                   !.files = UdFiles(loaded, LoadWordSize(disk.headerFile.header.magic, host))]
    /\ loaded' = <<>>
    /\ phase' = "reclosed"
    /\ UNCHANGED <<udVars, readOf, ret, puVars, vec, readerVars, trace_, code_, text_,
                   entryIndex_, header_, host>>

NextLoad == CallUdBaseLoad \/ CallQuery \/ CloseLoaded

SpecLoad == InitLoad /\ [][NextLoad]_vars

\* The magic is one of the four the switch of Load knows.
KnownMagic(magic) ==
    magic \in {<<"M", "4">>, <<"M", "8">>, <<"4", "M">>, <<"8", "M">>}

\* A data file that Init cannot open or whose size prefix it cannot read.
Unopenable(file) == ~file.exists \/ file.length < kSizeT

\* C23: Load returns no handle whenever the path template lacks "{}", the
\* header file is missing or short, the magic is not one of the four, or one
\* of the nine data files cannot be opened; a handle it returns has every
\* vector opened with the entries of its file and an initialised disassembler.
C23_LoadAbsentOnAnyFailure ==
    phase \in {"absent", "loaded"} =>
        /\ (\/ ~HasPlaceholder(disk.path)
            \/ ~disk.headerFile.exists
            \/ disk.headerFile.length < kBinaryHeaderSize
            \/ ~KnownMagic(disk.headerFile.header.magic)
            \/ \E name \in FileNames : Unopenable(FileOf(disk.files, name)))
           => phase = "absent"
        /\ phase = "absent" => loaded = <<>>
        /\ phase = "loaded" =>
            /\ loaded.trace_ = GraphUd.trace_
            /\ loaded.code_ = GraphUd.code_
            /\ loaded.text_ = GraphUd.text_
            /\ \A sp \in {"regState_", "memState_"} :
                   /\ loaded[sp].uses_ = GraphUd[sp].uses_
                   /\ loaded[sp].defs_ = GraphUd[sp].defs_
                   /\ loaded[sp].partialUses_.entries = GraphUd[sp].partialUses_.entries
            /\ DisasmInit(disk.headerFile.header.machineType,
                          disk.headerFile.header.endianness,
                          IF disk.headerFile.header.magic \in {<<"M", "4">>, <<"4", "M">>}
                          THEN 4 ELSE 8)

\* Load returned no handle because only the memory partial-uses file was
\* missing, and returned a handle for the intact graph.
C23_Witness ==
    /\ phase = "absent"
    /\ HasPlaceholder(disk.path)
    /\ disk.headerFile.exists /\ disk.headerFile.length = kBinaryHeaderSize
    /\ disk.headerFile.header.magic = <<"4", "M">> /\ host = "Little"
    /\ disk.headerFile.header.machineType = "EM_MIPS"
    /\ ~disk.files.mem.partialUses.exists
    /\ \A name \in FileNames \ {"mem-partial-uses"} : ~Unopenable(FileOf(disk.files, name))

\* C24: Load accepts a header whose magic is in either byte order, 'M4' and
\* 'M8' as well as '4M' and '8M', whatever the endianness of the host that
\* reopens, and takes the word size from the digit: with the path template,
\* the header file, the data files and the disassembler in order, it returns
\* a handle.
C24_LoadAcceptsEitherByteOrder ==
    (/\ phase \in {"absent", "loaded"}
     /\ HasPlaceholder(disk.path)
     /\ disk.headerFile.exists
     /\ disk.headerFile.length = kBinaryHeaderSize
     /\ KnownMagic(disk.headerFile.header.magic)
     /\ \A name \in FileNames : ~Unopenable(FileOf(disk.files, name))
     /\ DisasmInit(disk.headerFile.header.machineType,
                   disk.headerFile.header.endianness,
                   MagicWordSize(disk.headerFile.header.magic)))
    => phase = "loaded"

\* C25: the handle Load returns holds the entries of the files and nothing
\* more (no seed, no catch-all def, no reserve or rehash of a partial-use
\* table), a query leaves the handle as it was, and closing it leaves every
\* file with the length, the size prefix and the entries it had.
C25_OpenAndQueryLeaveGraphUnchanged ==
    [][/\ (phase = "closed" /\ phase' = "loaded") =>
              /\ loaded'.trace_ = disk.files.trace.entries
              /\ loaded'.code_ = disk.files.code.entries
              /\ loaded'.text_ = disk.files.text.entries
              /\ \A sp \in {"reg", "mem"} :
                     LET s == IF sp = "reg" THEN loaded'.regState_ ELSE loaded'.memState_
                     IN /\ s.uses_ = disk.files[sp].uses.entries
                        /\ s.defs_ = disk.files[sp].defs.entries
                        /\ s.partialUses_.entries = disk.files[sp].partialUses.entries
       /\ (phase = "loaded" /\ phase' = "loaded") => loaded' = loaded /\ disk' = disk
       /\ (phase = "loaded" /\ phase' = "reclosed") => disk'.files = disk.files
      ]_vars

\* A graph with partial uses was opened, queried for the trace of a memory
\* use, and closed.
C25_Witness ==
    /\ phase = "reclosed"
    /\ \E i \in 1..Len(disk.files.mem.partialUses.entries) :
           disk.files.mem.partialUses.entries[i].first # kEmpty
    /\ Len(disk.files.mem.uses.entries) >= 2
    /\ disk.files.text.length = Overhead("uint8", 4) + disk.files.text.size

----------------------------------------------------------------------------
(* The failing build: ud_file on trace files that may hold a bad record.   *)
(* A file is a prefix, empty or kMaxAffectedCount + 1 one-byte stores to    *)
(* adjacent addresses, followed by a short tail of records, and may lack    *)
(* the last byte of its last record.                                        *)

\* The largest number of records after the prefix.
MaxTail == 2

\* One-byte stores of instruction 1 to the addresses 0 .. kMaxAffectedCount.
StorePrefix ==
    [i \in 1..(kMaxAffectedCount + 1) |->
        StreamRecord("MT_STORE", 13, 1, i - 1, 1, 0, <<>>)]

\* The records of the tails: a store over the bytes of the prefix, a load, a
\* register write, INSN records of insnSeq 1 and 2, an execution, and a
\* record with a tag outside the enumerated set.
TailRecords ==
    {StreamRecord("MT_STORE", 12 + kMaxAffectedCount + 1, 2, 0,
                  kMaxAffectedCount + 1, 0, <<>>),
     StreamRecord("MT_LOAD", 14, 2, 1, 2, 0, <<>>),
     StreamRecord("MT_PUT_REG", 14, 1, 1, 2, 0, <<>>),
     StreamRecord("MT_INSN", 13, 1, 0, 1, 1, <<144>>),
     StreamRecord("MT_INSN", 13, 2, 0, 1, 1, <<144>>),
     StreamRecord("MT_INSN_EXEC", 8, 2, 0, 0, 0, <<>>),
     StreamRecord("unknown", 8, 0, 0, 0, 0, <<>>)}

Tails == UNION {[1..n -> TailRecords] : n \in 0..MaxTail}

InitFail ==
    /\ header_ = [endianness |-> "Little", wordSize |-> 4, machineType |-> "EM_386"]
    /\ host = "Little"
    /\ \E prefix \in {<<>>, StorePrefix}, tail \in Tails : data_ = prefix \o tail
    /\ length_ \in {End(data_)} \cup (IF data_ = <<>> THEN {} ELSE {End(data_) - 1})
    /\ traceFile = [magic |-> <<"4", "M">>, size |-> length_,
                    headerLength |-> HeaderFixedLength]
    /\ cur_ = HeaderAlignedLength
    /\ entryIndex_ = 0
    /\ out = NoCall
    /\ LET r == UdInitCreate(header_.machineType, header_.endianness,
                             header_.wordSize, length_ \div 128)
       IN /\ trace_ = r.ud.trace_ /\ code_ = r.ud.code_ /\ text_ = r.ud.text_
          /\ regState_ = r.ud.regState_ /\ memState_ = r.ud.memState_
          /\ phase = IF r.err THEN "failed" ELSE "building"
    /\ disk = [header |-> <<>>, files |-> <<>>]
    /\ loaded = <<>>
    /\ readOf = [mem |-> <<>>, reg |-> <<>>] /\ ret = NoRet /\ vec = NoVec
    /\ PUIdle

\* TraceMm::VisitOne that goes on to the next record after the visitor
\* returned an error.
BuildVisitOne_IgnoreErr(data, rd, ud) ==
    IF ~Have(rd.cur_, TlvFixedLength)
    THEN [err |-> TRUE, rd |-> rd, ud |-> ud]
    ELSE LET entry == data[RecordAt(data, rd.cur_)]
             aligned == GetAlignedLength(entry.length)
         IN IF ~Have(rd.cur_, aligned)
            THEN [err |-> TRUE, rd |-> rd, ud |-> ud]
            ELSE LET r == VisitEntry(ud, entry)
                 IN [err |-> FALSE,
                     rd |-> [cur_ |-> rd.cur_ + aligned,
                             entryIndex_ |-> rd.entryIndex_ + 1],
                     ud |-> r.ud]

\* TraceMm::VisitOne(0, SIZE_MAX, &ud) on the reader rd = [cur_, entryIndex_]
\* and the builder ud: the two length checks, the visitor called through the
\* switch on the tag, then Advance and entryIndex_++.  [err, rd, ud].
BuildVisitOne(data, rd, ud) ==
    IF ~Have(rd.cur_, TlvFixedLength)
    THEN [err |-> TRUE, rd |-> rd, ud |-> ud]
    ELSE LET entry == data[RecordAt(data, rd.cur_)]
             aligned == GetAlignedLength(entry.length)
         IN IF ~Have(rd.cur_, aligned)
            THEN [err |-> TRUE, rd |-> rd, ud |-> ud]
            ELSE LET r == VisitEntry(ud, entry)
                 IN IF r.err
                    THEN [err |-> TRUE, rd |-> rd, ud |-> r.ud]
                    ELSE [err |-> FALSE,
                          rd |-> [cur_ |-> rd.cur_ + aligned,
                                  entryIndex_ |-> rd.entryIndex_ + 1],
                          ud |-> r.ud]

\* One turn of the loop of TraceMm::Visit; an error ends the loop.
VisitOneOrFail ==
    /\ phase = "building"
    /\ cur_ # length_
    /\ LET r == BuildVisitOne(data_, [cur_ |-> cur_, entryIndex_ |-> entryIndex_], UdNow)
       IN /\ SetUd(r.ud)
          /\ phase' = IF r.err THEN "failed" ELSE "building"
          /\ entryIndex_' = r.rd.entryIndex_
          /\ cur_' = r.rd.cur_
    /\ UNCHANGED <<readOf, ret, puVars, vec, traceFile, data_, length_, out, header_,
                   host, disk, loaded>>

NextFail == VisitOneOrFail \/ CompleteAtEnd

SpecFail == InitFail /\ [][NextFail]_vars

\* Record i of the file cannot be processed: it runs past the end of the
\* file, its tag is unknown, it is an INSN record whose insnSeq is not 1 plus
\* the number of INSN records before it, or it is a store that overlaps more
\* than kMaxAffectedCount of the one-byte stores before it.
FailsAt(data, i) ==
    \/ OffsetOf(data, i) + GetAlignedLength(data[i].length) > length_
    \/ data[i].tag \notin KnownTags
    \/ /\ data[i].tag = "MT_INSN"
       /\ data[i].insnSeq # 1 + Cardinality({j \in 1..(i - 1) : data[j].tag = "MT_INSN"})
    \/ /\ data[i].tag = "MT_STORE"
       /\ Cardinality({j \in 1..(i - 1) :
              /\ data[j].tag = "MT_STORE" /\ ValueSize(data[j]) = 1
              /\ data[j].addr >= data[i].addr
              /\ data[j].addr < data[i].addr + ValueSize(data[i])}) > kMaxAffectedCount

\* The first record that fails, Len(data) + 1 when none does.
FirstFailing(data) ==
    Min({i \in 1..Len(data) : FailsAt(data, i)} \cup {Len(data) + 1})

\* The last trace entry was flushed: its end indices are the current counts.
LastEntryFlushed ==
    LET last == trace_[Len(trace_)]
    IN /\ last.regUseEndIndex = Len(regState_.uses_)
       /\ last.memUseEndIndex = Len(memState_.uses_)
       /\ last.regDefEndIndex = Len(regState_.defs_)
       /\ last.memDefEndIndex = Len(memState_.defs_)

\* C26: a build stops at the first record that fails: no later record is
\* dispatched, the open trace entry is not flushed and the ud header file is
\* not written; the header file is written only when every record was
\* processed and the last trace entry flushed.
C26_BuildStopsAtFirstFailure ==
    /\ entryIndex_ < FirstFailing(data_)
    /\ phase = "building" => disk.header = <<>>
    /\ phase = "failed" =>
        /\ entryIndex_ = FirstFailing(data_) - 1
        /\ entryIndex_ < Len(data_)
        /\ disk.header = <<>>
        /\ trace_[Len(trace_)].regDefEndIndex = 0
        /\ trace_[Len(trace_)].memDefEndIndex = 0
    /\ phase = "complete" =>
        /\ FirstFailing(data_) = Len(data_) + 1
        /\ entryIndex_ = Len(data_)
        /\ cur_ = length_
        /\ disk.header # <<>>
        /\ LastEntryFlushed
    /\ disk.header # <<>> => phase = "complete"

\* A build that failed at the store over more than 32 stores, with a record
\* after it in the file.
C26_Witness ==
    /\ phase = "failed"
    /\ entryIndex_ = kMaxAffectedCount + 1
    /\ Len(data_) = kMaxAffectedCount + 3
    /\ data_[entryIndex_ + 1].tag = "MT_STORE"
    /\ length_ = End(data_)

----------------------------------------------------------------------------
(* MmVector<T> on a file of its own.  vec is [T, stage, size, capacity_,    *)
(* entries, file, reopened]: size stands for storage_->size, entries for   *)
(* the capacity_ slots of storage_->entries (a slot keeps what was last     *)
(* written to it), file for the file as it is on disk, reopened for the     *)
(* vector that OpenExisting makes of the file.  Elements are numbers, 0     *)
(* being the value-initialised T.                                           *)

\* The largest size a vector is driven to.
MaxVecSize == 3

\* kGrowAmount, scaled down from 2^30 bytes to 2^6.
kGrowAmount == 64

VecTypes == {"uint8", "uint32", "Def", "InsnInTrace"}
VecValues == {1, 2}

\* GetAligned(pos, n) for n a power of two: (pos + n - 1) & ~(n - 1).
GetAligned(pos, n) == ((pos + (n - 1)) \div n) * n

\* MmVector::Init with CreatePersistent: InitCreated truncates the new file
\* to kOverhead and sets the size to 0.
VecInitCreated(T) ==
    [NoVec EXCEPT !.T = T, !.stage = "created",
                  !.file = [exists |-> TRUE, length |-> Overhead(T, 4),
                            size |-> 0, entries |-> <<>>]]

\* MmVector::reserve(n).
VecReserve(v, n) ==
    IF n <= v.capacity_ THEN v
    ELSE [v EXCEPT !.capacity_ = n,
                   !.entries = [i \in 1..n |-> IF i <= Len(v.entries)
                                               THEN v.entries[i] ELSE 0],
                   !.file.length = Overhead(v.T, 4) + n * SizeOf(v.T, 4)]

\* MmVector::Grow(bytes).
VecGrow(v, bytes) == VecReserve(v, v.capacity_ + bytes \div SizeOf(v.T, 4))

\* storage_ is a MAP_SHARED mapping of the file: what a call stores in
\* storage_->size and storage_->entries is what the file holds from then on.
\* The file's entries are those below its size prefix.
MapShared(v) ==
    [v EXCEPT !.file.size = v.size,
              !.file.entries = [k \in 1..v.size |-> v.entries[k]]]

\* MmVector::push_back(val); emplace_back() is push_back of T().
VecPushBack(v, val) ==
    LET g == IF v.size + 1 > v.capacity_ THEN VecGrow(v, kGrowAmount) ELSE v
    IN MapShared([g EXCEPT !.entries[g.size + 1] = val, !.size = g.size + 1])

\* MmVector::insert(position, first, last) with position = &entries[i]: the
\* values are written over the slots from i on, and size = max(size, n + i).
VecInsert(v, i, vals) ==
    LET n == Len(vals)
        g == IF i + n > v.capacity_
             THEN VecGrow(v, GetAligned((i + n - v.capacity_) * SizeOf(v.T, 4),
                                        kGrowAmount))
             ELSE v
    IN MapShared([g EXCEPT !.entries = [k \in 1..Len(g.entries) |->
                                           IF k > i /\ k <= i + n THEN vals[k - i]
                                           ELSE g.entries[k]],
                           !.size = MaxOf(g.size, n + i)])

\* MmVector::resize(n, val).
VecResize(v, n, val) ==
    LET g == IF n > v.capacity_
             THEN VecGrow(v, GetAligned((n - v.capacity_) * SizeOf(v.T, 4),
                                        kGrowAmount))
             ELSE v
    IN MapShared([g EXCEPT !.entries = [k \in 1..Len(g.entries) |->
                                           IF k > g.size /\ k <= n THEN val
                                           ELSE g.entries[k]],
                           !.size = n])

\* ~MmVector that leaves the file at its reserved length.
VecDestroy_NoTruncate(v) ==
    [v EXCEPT !.stage = "destroyed"]

\* ~MmVector: ftruncate(fd_, kOverhead + storage_->size * sizeof(T)); the
\* file keeps the size prefix and the entries below it, which the calls
\* wrote through the mapping.
VecDestroy(v) ==
    [v EXCEPT !.stage = "destroyed",
              !.file.length = Overhead(v.T, 4) + v.size * SizeOf(v.T, 4)]

\* MmVector::Init with OpenExisting on the file: capacity_ = storage_->size.
VecOpenExisting(v) ==
    LET r == MmInitOpenExisting(v.file, v.T, 4)
    IN [v EXCEPT !.stage = IF r.err THEN "unopened" ELSE "reopened",
                 !.reopened = [size |-> v.file.size,
                               capacity_ |-> v.file.size,
                               entries |-> r.v]]

InitVec ==
    /\ vec \in {VecInitCreated(T) : T \in VecTypes}
    /\ memState_ = SeededState(0)
    /\ regState_ = SeededState(0)
    /\ readOf = [mem |-> <<>>, reg |-> <<>>] /\ ret = NoRet
    /\ PUIdle
    /\ BuildIdle
    /\ ReaderIdle

VecFrame == UNCHANGED <<udVars, readOf, ret, puVars, buildVars, readerVars>>

PushBack ==
    /\ vec.stage = "created" /\ vec.size < MaxVecSize
    /\ \E val \in VecValues : vec' = VecPushBack(vec, val)
    /\ VecFrame

EmplaceBack ==
    /\ vec.stage = "created" /\ vec.size < MaxVecSize
    /\ vec' = VecPushBack(vec, 0)
    /\ VecFrame

Insert ==
    /\ vec.stage = "created"
    /\ \E i \in 0..vec.size, vals \in UNION {[1..n -> VecValues] : n \in 0..2} :
           /\ i + Len(vals) <= MaxVecSize
           /\ vec' = VecInsert(vec, i, vals)
    /\ VecFrame

Resize ==
    /\ vec.stage = "created"
    /\ \E n \in 0..MaxVecSize, val \in {0} \cup VecValues : vec' = VecResize(vec, n, val)
    /\ VecFrame

Reserve ==
    /\ vec.stage = "created"
    /\ \E n \in 0..(MaxVecSize + 1) : vec' = VecReserve(vec, n)
    /\ VecFrame

Destroy ==
    /\ vec.stage = "created"
    /\ vec' = VecDestroy(vec)
    /\ VecFrame

OpenExisting ==
    /\ vec.stage = "destroyed"
    /\ vec' = VecOpenExisting(vec)
    /\ VecFrame

NextVec ==
    PushBack \/ EmplaceBack \/ Insert \/ Resize \/ Reserve \/ Destroy \/ OpenExisting

SpecVec == InitVec /\ [][NextVec]_vars

\* C27: after any sequence of push_back, emplace_back, insert, resize and
\* reserve on a persistently created MmVector and its destruction, the file
\* is the 8-byte size prefix followed by size entries, its length is
\* sizeof(size_t) + size * sizeof(T) and the prefix holds size; OpenExisting
\* on it gives size = capacity = that count and the same entries in order.
C27_FileIsPrefixPlusEntries ==
    /\ vec.stage \in {"destroyed", "reopened", "unopened"} =>
        /\ vec.file.length = kSizeT + vec.size * SizeOf(vec.T, 4)
        /\ vec.file.size = vec.size
    /\ vec.stage # "unopened"
    /\ vec.stage = "reopened" =>
        /\ vec.reopened.size = vec.size
        /\ vec.reopened.capacity_ = vec.size
        /\ vec.reopened.entries = [k \in 1..vec.size |-> vec.entries[k]]

\* C27, amended: the length of the file is kOverhead + size * sizeof(T),
\* kOverhead being sizeof(Storage) - sizeof(T); the rest is as stated.
C27_FileIsOverheadPlusEntries ==
    /\ vec.stage \in {"destroyed", "reopened", "unopened"} =>
        /\ vec.file.length = Overhead(vec.T, 4) + vec.size * SizeOf(vec.T, 4)
        /\ vec.file.size = vec.size
    /\ vec.stage # "unopened"
    /\ vec.stage = "reopened" =>
        /\ vec.reopened.size = vec.size
        /\ vec.reopened.capacity_ = vec.size
        /\ vec.reopened.entries = [k \in 1..vec.size |-> vec.entries[k]]

\* A vector of bytes that grew, was shrunk below its capacity and holds two
\* entries was destroyed and reopened.
C27_Witness ==
    /\ vec.stage = "reopened"
    /\ vec.T = "uint8"
    /\ vec.size = 2
    /\ vec.capacity_ > vec.size
    /\ vec.entries[3] # 0
    /\ vec.reopened.entries = <<1, 2>>

----------------------------------------------------------------------------
(* The machine harness: a trace header and a graph header of every machine *)
(* type, endianness and word size; Ud::Init of a build with that header     *)
(* and UdBase::Load of an intact graph with it.                             *)

\* The machine types of the enumeration, and a value outside it.
RecognisedTypes == {"EM_386", "EM_X86_64", "EM_PPC", "EM_PPC64", "EM_ARM",
                    "EM_AARCH64", "EM_S390", "EM_MIPS", "EM_NANOMIPS"}
MachineHeaders == [endianness : {"Little", "Big"}, wordSize : {4, 8},
                   machineType : RecognisedTypes \cup {"EM_NONE"}]

InitMachines ==
    /\ header_ \in MachineHeaders
    /\ host \in {"Little", "Big"}
    /\ disk = [path |-> <<"u", "{", "}">>,
               headerFile |-> [exists |-> TRUE, length |-> kBinaryHeaderSize,
                               header |-> DumpBinary(header_.machineType,
                                                     header_.endianness,
                                                     header_.wordSize, host)],
               files |-> UdFiles(GraphUd, header_.wordSize)]
    /\ phase = "closed"
    /\ loaded = <<>>
    /\ trace_ = <<>> /\ code_ = <<>> /\ text_ = <<>> /\ entryIndex_ = 0
    /\ memState_ = SeededState(0)
    /\ regState_ = SeededState(0)
    /\ readOf = [mem |-> <<>>, reg |-> <<>>] /\ ret = NoRet /\ vec = NoVec
    /\ PUIdle
    /\ ReaderIdle

\* visitor.Init(header_, length_ / 128) of a build of a trace with this
\* header: what Ud::Init returns.
CallUdInit ==
    /\ out.call = "none"
    /\ LET r == UdInitCreate(header_.machineType, header_.endianness,
                             header_.wordSize, 0)
       IN out' = [NoCall EXCEPT !.call = "Init",
                                !.result = IF r.err THEN "error" ELSE "ok"]
    /\ UNCHANGED <<udVars, readOf, ret, puVars, vec, traceFile, data_, length_, cur_,
                   buildVars>>

NextMachines == CallUdInit \/ CallUdBaseLoad

SpecMachines == InitMachines /\ [][NextMachines]_vars

\* The (machine type, endianness, word size) tuples of cstool's valid
\* combinations for the machine types that are supported.
AcceptedTuples ==
    {<<"EM_386", "Little", 4>>, <<"EM_X86_64", "Little", 8>>,
     <<"EM_PPC64", "Little", 8>>, <<"EM_PPC64", "Big", 8>>,
     <<"EM_ARM", "Little", 4>>, <<"EM_ARM", "Big", 4>>,
     <<"EM_AARCH64", "Little", 8>>, <<"EM_AARCH64", "Big", 8>>,
     <<"EM_S390", "Big", 4>>, <<"EM_S390", "Big", 8>>,
     <<"EM_MIPS", "Little", 4>>, <<"EM_MIPS", "Big", 4>>,
     <<"EM_MIPS", "Little", 8>>, <<"EM_MIPS", "Big", 8>>}

HeaderTuple == <<header_.machineType, header_.endianness, header_.wordSize>>

\* Build and open fail for a tuple outside `tuples` and succeed for one in it.
InitFollows(tuples) ==
    /\ out.call = "Init" => (out.result = "ok" <=> HeaderTuple \in tuples)
    /\ phase = "loaded" => HeaderTuple \in tuples
    /\ phase = "absent" => HeaderTuple \notin tuples

\* C28: disassembler initialisation, and with it graph build and graph open,
\* fails for the rejected tuples, EM_386 with big endian or a word size other
\* than 4 among them, and each of the nine recognised machine types is
\* accepted for at least one (endianness, word size).
C28_NineMachineTypesAccepted ==
    /\ InitFollows({t \in RecognisedTypes \X {"Little", "Big"} \X {4, 8} :
                       DisasmInit(t[1], t[2], t[3])})
    /\ (out.call = "Init" /\ header_.machineType = "EM_386"
            /\ (header_.endianness = "Big" \/ header_.wordSize # 4))
           => out.result = "error"
    /\ \A type \in RecognisedTypes :
           \E endianness \in {"Little", "Big"}, wordSize \in {4, 8} :
               DisasmInit(type, endianness, wordSize)

\* C28, amended: initialisation succeeds exactly for the valid tuples of the
\* seven supported machine types; EM_PPC and EM_NANOMIPS are rejected for
\* every endianness and word size, as is a machine type outside the nine.
C28_SevenMachineTypesAccepted ==
    /\ InitFollows(AcceptedTuples)
    /\ (out.call = "Init" /\ header_.machineType = "EM_386"
            /\ (header_.endianness = "Big" \/ header_.wordSize # 4))
           => out.result = "error"
    /\ \A type \in RecognisedTypes \ {"EM_PPC", "EM_NANOMIPS"} :
           \E endianness \in {"Little", "Big"}, wordSize \in {4, 8} :
               DisasmInit(type, endianness, wordSize)
    /\ \A type \in {"EM_PPC", "EM_NANOMIPS", "EM_NONE"} :
           \A endianness \in {"Little", "Big"}, wordSize \in {4, 8} :
               ~DisasmInit(type, endianness, wordSize)

\* A build with the header (EM_386, big endian, 4) failed in Init and the
\* graph with that header was refused.
C28_Witness ==
    /\ out.call = "Init" /\ out.result = "error"
    /\ phase = "absent"
    /\ HeaderTuple = <<"EM_386", "Big", 4>>

----------------------------------------------------------------------------
(* What one AddUses call appends.                                          *)

\* The keys of the live intervals [startAddr, key) that share an address
\* with [startAddr, endAddr).
Overlapping(m, startAddr, endAddr) ==
    {k \in DOMAIN m : m[k].startAddr < endAddr /\ startAddr < k
                      /\ m[k].startAddr < k}

\* The elements of a set of numbers in ascending order.
RECURSIVE Ascending(_)
Ascending(S) == IF S = {} THEN <<>> ELSE <<Min(S)>> \o Ascending(S \ {Min(S)})

\* The range a use stands for: its partial-use entry if it has one, else the
\* range of its def.
EffectiveRange(s, u) ==
    IF PUFind(s.partialUses_, u) # -1 THEN EntryOfUse(s, u) ELSE DefOfUse(s, u)

\* The uses AddUses(startAddr, size) appends to state s, against the live
\* intervals of s that overlap the read: one use per interval, in ascending
\* order, with the interval's defIndex, and effective ranges that tile the read.
UsesTileRead(s, startAddr, size) ==
    LET after == AddUses(s, startAddr, size)
        n == Len(s.uses_)
        keys == Ascending(Overlapping(s.addressSpace_, startAddr, startAddr + size))
        eff(i) == EffectiveRange(after, n + i - 1)
    IN /\ Len(after.uses_) = n + Len(keys)
       /\ Len(keys) >= 1
       /\ \A i \in 1..n : after.uses_[i] = s.uses_[i]
       /\ \A i \in 1..Len(keys) :
              /\ after.uses_[n + i] = s.addressSpace_[keys[i]].defIndex
              /\ eff(i).startAddr < eff(i).endAddr
       /\ eff(1).startAddr = startAddr
       /\ eff(Len(keys)).endAddr = startAddr + size
       /\ \A i \in 1..(Len(keys) - 1) : eff(i).endAddr = eff(i + 1).startAddr

\* C29: in every state the harness reaches, AddUses(start, size) with
\* size >= 1 and start + size <= max(W) appends exactly one use per live
\* interval overlapping [start, start + size), in ascending address order,
\* each with that interval's defIndex, and the effective ranges of these uses
\* (partial entry if present, else the def's range) are non-empty, adjacent
\* and run from start to start + size.
C29_UsesTileTheRead ==
    \A r \in InRangePairs : UsesTileRead(memState_, r[1], r[2])

\* The read range of use u clipped to the live interval the use was emitted
\* for: [max(start, s), min(end, e)).
ClipOfUse(h, u) ==
    Def(MaxOf(h[u + 1].startAddr, h[u + 1].liveStart),
        MinOf(h[u + 1].endAddr, h[u + 1].liveEnd))

\* C30: a use emitted by AddUses has a partial-use entry exactly when the
\* read range clipped to the overlapped live interval differs from the full
\* range of the def the use refers to, and the entry is that clipped range;
\* a use whose clipped range is the def's full range has no entry.
C30_EntryExactlyWhenClipDiffers ==
    \A u \in UseIndices(memState_) :
        /\ (PUFind(memState_.partialUses_, u) # -1)
               <=> (ClipOfUse(readOf.mem, u) # DefOfUse(memState_, u))
        /\ PUFind(memState_.partialUses_, u) # -1 =>
               EntryOfUse(memState_, u) = ClipOfUse(readOf.mem, u)

\* One read has emitted a use without an entry, of a def it covers wholly,
\* and a use with an entry that differs from its def's range at one end only.
C30_Witness ==
    \E u, v \in UseIndices(memState_) :
        /\ readOf.mem[u + 1].call = readOf.mem[v + 1].call
        /\ PUFind(memState_.partialUses_, u) = -1
        /\ ClipOfUse(readOf.mem, u) = DefOfUse(memState_, u)
        /\ readOf.mem[u + 1].startAddr < DefOfUse(memState_, u).startAddr
        /\ PUFind(memState_.partialUses_, v) # -1
        /\ EntryOfUse(memState_, v).startAddr = DefOfUse(memState_, v).startAddr
        /\ EntryOfUse(memState_, v).endAddr < DefOfUse(memState_, v).endAddr

----------------------------------------------------------------------------
(* What one AddDefs call changes.                                          *)

\* The defIndex values of the live intervals that contain address a.
LiveWriters(m, a) == {m[k].defIndex : k \in LiveKeysAt(m, a)}

\* The <<startAddr, size>> pairs with size >= 1 among those the harness passes.
SizedRanges == {r \in Ranges : r[2] >= 1}

\* A successful AddDefs(startAddr, size) on state s appends the one def
\* [startAddr, startAddr + size), makes it the live writer of each of its
\* addresses and leaves everything else as it was.
AddDefsFrame(s, startAddr, size) ==
    LET r == AddDefs(s, startAddr, size)
        n == Len(s.defs_)
    IN ~r.err =>
        /\ Len(r.state.defs_) = n + 1
        /\ r.state.defs_[n + 1].startAddr = startAddr
        /\ r.state.defs_[n + 1].endAddr = startAddr + size
        /\ \A d \in 1..n : r.state.defs_[d] = s.defs_[d]
        /\ r.state.uses_ = s.uses_
        /\ r.state.partialUses_ = s.partialUses_
        /\ \A a \in 0..WMax :
               IF startAddr <= a /\ a < startAddr + size
               THEN LiveWriters(r.state.addressSpace_, a) = {n}
               ELSE LiveWriters(r.state.addressSpace_, a)
                        = LiveWriters(s.addressSpace_, a)

\* C31: in every state, a successful AddDefs(start, size) with size >= 1
\* appends exactly one def with range [start, start + size) and index equal
\* to the previous number of defs, maps every address of that range to the
\* new index, and leaves the live writer of every other address, every
\* earlier def, every use and every partial-use entry unchanged.
C31_AddDefsAppendsAndFrames ==
    \A r \in SizedRanges : AddDefsFrame(memState_, r[1], r[2])

\* The addresses of [startAddr, startAddr + size), the end taken in W bits.
Written(startAddr, size) ==
    {a \in 0..WMax : startAddr <= a /\ a < startAddr + size}

\* C32: after any sequence of AddDefs calls with any start and size a record
\* can carry (size 0 and a wrapping end included), every interval of the
\* live-writer map is non-empty (startAddr < endAddr), and a further AddDefs
\* call makes no live address lose its interval unless the new range covers
\* that address.
C32_IntervalsNonEmptyAndKept ==
    /\ \A k \in DOMAIN memState_.addressSpace_ :
           memState_.addressSpace_[k].startAddr < k
    /\ \A r \in Ranges :
           LET res == AddDefs(memState_, r[1], r[2])
           IN ~res.err =>
               \A a \in (0..WMax) \ Written(r[1], r[2]) :
                   LiveKeysAt(memState_.addressSpace_, a) # {}
                       => LiveKeysAt(res.state.addressSpace_, a) # {}

----------------------------------------------------------------------------
(* The index ranges of the trace entries after a build.                    *)

\* The four index ranges of a trace entry, as <<start, end>> field names,
\* with the vector each one indexes.
TraceRanges(ud) ==
    {[start |-> "regUseStartIndex", end |-> "regUseEndIndex",
      count |-> GetUseCount(ud.regState_)],
     [start |-> "memUseStartIndex", end |-> "memUseEndIndex",
      count |-> GetUseCount(ud.memState_)],
     [start |-> "regDefStartIndex", end |-> "regDefEndIndex",
      count |-> GetDefCount(ud.regState_)],
     [start |-> "memDefStartIndex", end |-> "memDefEndIndex",
      count |-> GetDefCount(ud.memState_)]}

\* C33: after a successful build, for each of the four index ranges (regUse,
\* memUse, regDef, memDef): every trace entry has Start <= End, each entry's
\* End is the next entry's Start, the first entry's Start is 0 and the last
\* entry's End is the final length of the uses or defs vector.
C33_TraceEntriesPartitionIndices ==
    phase = "complete" =>
        \A R \in TraceRanges(UdNow) :
            /\ \A t \in 1..Len(trace_) : trace_[t][R.start] <= trace_[t][R.end]
            /\ \A t \in 1..(Len(trace_) - 1) :
                   trace_[t][R.end] = trace_[t + 1][R.start]
            /\ trace_[1][R.start] = 0
            /\ trace_[Len(trace_)][R.end] = R.count

\* A completed build of three trace entries in which a middle entry has a
\* memory use and the last has a memory def and a register use.
C33_Witness ==
    /\ phase = "complete"
    /\ Len(trace_) >= 3
    /\ trace_[2].memUseStartIndex < trace_[2].memUseEndIndex
    /\ trace_[Len(trace_)].memDefStartIndex < trace_[Len(trace_)].memDefEndIndex
    /\ trace_[Len(trace_)].regUseStartIndex < trace_[Len(trace_)].regUseEndIndex

----------------------------------------------------------------------------
(* SeekInsn turn by turn: the Seek visitor after each record.              *)

\* entryIndex_ is a size_t: entryIndex_++ wraps at 2^64, scaled here to a
\* modulus no file of the harnesses reaches with a record of its own.
kEntryIndexMod == 8

\* The files sought in hold at most MaxSeekRecords records.
MaxSeekRecords == 2

\* Records of every tag with two insnSeq values, a load with the largest
\* insnSeq, and a record whose tag is none of the enumerated ones.
SeekRecords ==
    {[tag |-> t, length |-> 14, insnSeq |-> q] :
        t \in LdStTags \cup LdStNxTags \cup {"MT_INSN", "MT_INSN_EXEC", "MT_MMAP"},
        q \in {0, 1}}
    \cup {[tag |-> "MT_LOAD", length |-> 14, insnSeq |-> kUint32Max],
          [tag |-> "unknown", length |-> 8, insnSeq |-> 0]}

SeekFiles == UNION {[1..n -> SeekRecords] : n \in 0..MaxSeekRecords}

\* A TraceMm on a well-framed file, no SeekInsn call made yet.
InitSeek ==
    /\ header_ = [endianness |-> "Little", wordSize |-> 4, machineType |-> "EM_386"]
    /\ data_ \in SeekFiles
    /\ length_ = End(data_)
    /\ traceFile = [magic |-> <<"4", "M">>, size |-> length_,
                    headerLength |-> HeaderFixedLength]
    /\ cur_ = HeaderAlignedLength
    /\ entryIndex_ = 0
    /\ out = NoCall
    /\ trace_ = <<>> /\ code_ = <<>> /\ text_ = <<>>
    /\ phase = "idle"
    /\ host = "Little"
    /\ disk = [header |-> <<>>, files |-> <<>>] /\ loaded = <<>>
    /\ memState_ = SeededState(0)
    /\ regState_ = SeededState(0)
    /\ readOf = [mem |-> <<>>, reg |-> <<>>] /\ ret = NoRet /\ vec = NoVec
    /\ PUIdle

\* SeekInsn(index) up to its loop: the cursor is rewound to just past the
\* header and a Seek visitor is constructed.
BeginSeek ==
    /\ out.result # "running"
    /\ \E index \in 0..MaxSeekIndex :
           out' = [NoCall EXCEPT !.call = "SeekInsn", !.arg = index,
                                 !.result = "running", !.py = SeekInit]
    /\ cur_' = HeaderAlignedLength
    /\ entryIndex_' = 0
    /\ UNCHANGED <<udVars, readOf, ret, puVars, vec, traceFile, data_, length_,
                   trace_, code_, text_, phase, header_, host, disk, loaded>>

\* One turn of the loop of SeekInsn.
SeekTurn ==
    /\ out.result = "running"
    /\ IF cur_ = length_
       THEN /\ out' = [out EXCEPT !.result = "invalid_argument"]
            /\ UNCHANGED <<cur_, entryIndex_>>
       ELSE LET prev == cur_
                r == ReaderVisitOne(data_, [cur_ |-> cur_, entryIndex_ |-> entryIndex_],
                                    0, kSizeMax)
            IN IF r.err
               THEN /\ out' = [out EXCEPT !.result = "runtime_error"]
                    /\ UNCHANGED <<cur_, entryIndex_>>
               ELSE LET visitor == SeekVisit(out.py, r.entry)
                    IN IF visitor.insnIndex = out.arg
                       THEN /\ out' = [out EXCEPT !.result = "ok", !.py = visitor]
                            /\ cur_' = prev
                            /\ entryIndex_' = r.rd.entryIndex_ - 1
                       ELSE /\ out' = [out EXCEPT !.py = visitor]
                            /\ cur_' = r.rd.cur_
                            /\ entryIndex_' = r.rd.entryIndex_ % kEntryIndexMod
    /\ UNCHANGED <<udVars, readOf, ret, puVars, vec, traceFile, data_, length_,
                   trace_, code_, text_, phase, header_, host, disk, loaded>>

NextSeek == BeginSeek \/ SeekTurn

SpecSeek == InitSeek /\ [][NextSeek]_vars

\* The tags the specification lists as carrying an insnSeq.
ListedSeqTags ==
    {"MT_LOAD", "MT_STORE", "MT_GET_REG", "MT_PUT_REG", "MT_INSN_EXEC",
     "MT_GET_REG_NX", "MT_PUT_REG_NX"}

\* A loop turn of SeekInsn that hands the record at the cursor to the visitor.
TurnVisits ==
    /\ out.result = "running"
    /\ cur_ # length_
    /\ data_[RecordAt(data_, cur_)].tag \in KnownTags

\* C34 as stated: a loop turn increments insnIndex only for a record of one
\* of the seven listed tags whose insnSeq differs from the remembered one,
\* and a record of any other tag (MMAP, INSN, REG) leaves insnIndex and the
\* remembered insnSeq unchanged.
C34_OnlyListedTagsAdvance ==
    [][TurnVisits =>
        LET e == data_[RecordAt(data_, cur_)]
        IN /\ out'.py.insnIndex # out.py.insnIndex =>
                  e.tag \in ListedSeqTags /\ e.insnSeq # out.py.prevInsnSeq
           /\ e.tag \notin ListedSeqTags => out'.py = out.py]_vars

\* C34 amended: a loop turn increments insnIndex, and remembers the record's
\* insnSeq, exactly for a record of one of the seven listed tags or of tag
\* REG whose insnSeq differs from the remembered one; records of tag MMAP or
\* INSN, and records that repeat the remembered insnSeq, leave insnIndex and
\* the remembered insnSeq unchanged.
C34_ListedTagsAndRegAdvance ==
    [][TurnVisits =>
        LET e == data_[RecordAt(data_, cur_)]
        IN IF e.tag \in ListedSeqTags \cup {"MT_REG"}
              /\ e.insnSeq # out.py.prevInsnSeq
           THEN out'.py = [insnIndex |-> out.py.insnIndex + 1,
                           prevInsnSeq |-> e.insnSeq]
           ELSE out'.py = out.py]_vars

\* A seek has passed a load and then a REG record of another insnSeq, which
\* took insnIndex from 0 to 1.
C34_Witness ==
    /\ out.call = "SeekInsn" /\ out.result = "running"
    /\ Len(data_) = 2
    /\ data_[1].tag = "MT_LOAD" /\ data_[2].tag = "MT_REG"
    /\ data_[1].insnSeq # data_[2].insnSeq
    /\ cur_ = length_
    /\ out.py = [insnIndex |-> 1, prevInsnSeq |-> data_[2].insnSeq]

----------------------------------------------------------------------------
(* What a record of each tag changes in the two address spaces.            *)

\* The part of the two address spaces a record of the tag may change: a read
\* appends uses (and partial-use entries) in its own space, a write appends
\* a def and updates the live map of its own space, and other tags touch
\* neither space.
TagFrame(tag) ==
    CASE tag = "MT_LOAD" ->
             /\ regState_' = regState_
             /\ memState_'.defs_ = memState_.defs_
             /\ memState_'.addressSpace_ = memState_.addressSpace_
      [] tag = "MT_STORE" ->
             /\ regState_' = regState_
             /\ memState_'.uses_ = memState_.uses_
             /\ memState_'.partialUses_ = memState_.partialUses_
      [] tag \in {"MT_GET_REG", "MT_GET_REG_NX"} ->
             /\ memState_' = memState_
             /\ regState_'.defs_ = regState_.defs_
             /\ regState_'.addressSpace_ = regState_.addressSpace_
      [] tag \in {"MT_PUT_REG", "MT_PUT_REG_NX"} ->
             /\ memState_' = memState_
             /\ regState_'.uses_ = regState_.uses_
             /\ regState_'.partialUses_ = regState_.partialUses_
      [] OTHER -> regState_' = regState_ /\ memState_' = memState_

\* The files whose records are told apart by tag hold at most MaxTagRecords
\* records.
MaxTagRecords == 3

\* One record of each tag, under insnSeq 1 and over the two bytes at address
\* 1, an instruction of one opcode byte, and a store and an execution under
\* insnSeq 2.
TagRecords ==
    {StreamRecord(tag, 14, 1, 1, 2, 0, <<>>) : tag \in LdStTags}
    \cup {StreamRecord(tag, 16, 1, 1, 2, 0, <<>>) : tag \in LdStNxTags}
    \cup {StreamRecord("MT_INSN", 13, 1, 0, 1, 1, <<144>>),
          StreamRecord("MT_INSN_EXEC", 8, 2, 0, 0, 0, <<>>),
          StreamRecord("MT_STORE", 14, 2, 2, 2, 0, <<>>),
          StreamRecord("MT_MMAP", 17, 0, 0, 0, 0, <<>>)}

TagFiles == UNION {[1..n -> TagRecords] : n \in 0..MaxTagRecords}

\* ud_file on a well-framed little-endian trace of EM_386 made of these
\* records: the reader just past the header, the builder initialised.
InitTags ==
    /\ header_ = [endianness |-> "Little", wordSize |-> 4, machineType |-> "EM_386"]
    /\ host = "Little"
    /\ data_ \in TagFiles
    /\ length_ = End(data_)
    /\ traceFile = [magic |-> <<"4", "M">>, size |-> length_,
                    headerLength |-> HeaderFixedLength]
    /\ cur_ = HeaderAlignedLength
    /\ entryIndex_ = 0
    /\ out = NoCall
    /\ LET r == UdInitCreate(header_.machineType, header_.endianness,
                             header_.wordSize, 0)
       IN /\ trace_ = r.ud.trace_ /\ code_ = r.ud.code_ /\ text_ = r.ud.text_
          /\ regState_ = r.ud.regState_ /\ memState_ = r.ud.memState_
          /\ phase = IF r.err THEN "failed" ELSE "building"
    /\ disk = [header |-> <<>>, files |-> <<>>]
    /\ loaded = <<>>
    /\ readOf = [mem |-> <<>>, reg |-> <<>>] /\ ret = NoRet /\ vec = NoVec
    /\ PUIdle

SpecTags == InitTags /\ [][NextStream]_vars

\* C35: in the builder, a LOAD or STORE record changes only the memory
\* address space (uses resp. defs and live map), a GET_REG, GET_REG_NX,
\* PUT_REG or PUT_REG_NX record changes only the register address space, and
\* a REG, INSN, INSN_EXEC or MMAP record changes the uses, defs, partial-use
\* table and live map of neither address space.
C35_RecordsChangeTheirOwnSpace ==
    [][(phase = "building" /\ cur_ # length_)
          => TagFrame(data_[RecordAt(data_, cur_)].tag)]_vars

\* Three records in: the memory space has a use and a def of its own and the
\* register space has a use, each appended by a record of its own space.
C35_Witness ==
    /\ phase = "building"
    /\ entryIndex_ = 3
    /\ Len(memState_.uses_) = 1
    /\ Len(memState_.defs_) = 2
    /\ Len(regState_.uses_) = 1
    /\ Len(regState_.defs_) = 1

----------------------------------------------------------------------------
(* Walking a file whose records may have a length field of 0.              *)

\* The files walked hold at most MaxWalkRecords records.
MaxWalkRecords == 2

\* Records of full length, and records whose length field is 0 or smaller
\* than a Tlv: of the tags whose Seek overload reads nothing of the record,
\* and of a tag that is none of the enumerated ones.
WalkRecords ==
    {[tag |-> "MT_LOAD", length |-> 13, insnSeq |-> 0],
     [tag |-> "MT_INSN_EXEC", length |-> 8, insnSeq |-> 1],
     [tag |-> "MT_MMAP", length |-> 17, insnSeq |-> 0],
     [tag |-> "MT_MMAP", length |-> 0, insnSeq |-> 0],
     [tag |-> "MT_INSN", length |-> 0, insnSeq |-> 0],
     [tag |-> "MT_MMAP", length |-> 2, insnSeq |-> 0],
     [tag |-> "unknown", length |-> 0, insnSeq |-> 0]}

WalkFiles == UNION {[1..n -> WalkRecords] : n \in 0..MaxWalkRecords}

\* A TraceMm on such a file, which ends where its last record ends or two
\* bytes later; no SeekInsn call made yet.
InitWalk ==
    /\ header_ = [endianness |-> "Little", wordSize |-> 4, machineType |-> "EM_386"]
    /\ data_ \in WalkFiles
    /\ length_ \in {End(data_), End(data_) + 2}
    /\ traceFile = [magic |-> <<"4", "M">>, size |-> length_,
                    headerLength |-> HeaderFixedLength]
    /\ cur_ = HeaderAlignedLength
    /\ entryIndex_ = 0
    /\ out = NoCall
    /\ trace_ = <<>> /\ code_ = <<>> /\ text_ = <<>>
    /\ phase = "idle"
    /\ host = "Little"
    /\ disk = [header |-> <<>>, files |-> <<>>] /\ loaded = <<>>
    /\ memState_ = SeededState(0)
    /\ regState_ = SeededState(0)
    /\ readOf = [mem |-> <<>>, reg |-> <<>>] /\ ret = NoRet /\ vec = NoVec
    /\ PUIdle

\* The loop of SeekInsn is not preempted for ever: a turn that can be taken
\* is taken.
SpecWalk == InitWalk /\ [][NextSeek]_vars /\ WF_vars(SeekTurn)

\* C36: walking any finite trace file terminates: every SeekInsn call, on
\* every record content including a record whose length field is 0, reaches
\* the insn sought, end-of-stream or a format error after finitely many
\* loop turns.
C36_WalkTerminates == (out.result = "running") ~> (out.result # "running")

----------------------------------------------------------------------------
(* The code index of the trace entries.                                    *)

\* C37: after a build that completes successfully, the codeIndex of every
\* trace entry is an index into the code table (trace[t].codeIndex <
\* code.len), so code_for_trace followed by pc_for_code reads inside code.
C37_CodeIndexInsideCode ==
    phase = "complete" =>
        \A t \in 0..(Len(trace_) - 1) : GetCodeForTrace(UdNow, t) < Len(code_)

----------------------------------------------------------------------------
(* The seek's numbering of instructions against the builder's.             *)

\* The positions (1-based) of the records on which the builder opens a trace
\* entry, in file order: the k-th of them opens trace entry k.
EntryOpenings(data) == Ascending({i \in 1..Len(data) : OpensEntry(data, i)})

\* The seek and the builder number the instructions of data alike:
\* SeekInsn(k) stops at the record that opens trace entry k + 1, and fails
\* for the first k that has no such record.
NumberingsAgree(data, trace) ==
    LET opens == EntryOpenings(data)
    IN /\ Len(opens) = Len(trace) - 1
       /\ \A k \in 0..(Len(opens) - 1) :
              /\ SeekInsn(data, k).result = "ok"
              /\ SeekInsn(data, k).rd.entryIndex_ = opens[k + 1] - 1
       /\ SeekInsn(data, Len(opens)).result = "invalid_argument"

\* C38: for every stream the builder accepts and every k, the record at
\* which SeekInsn(k) stops is the record on which the builder opens trace
\* entry k + 1, and the number of instructions the seek counts is
\* trace.len - 1, whatever the first insnSeq of the stream is.
C38_SeekAndTraceNumberingAgree ==
    phase = "complete" => NumberingsAgree(data_, trace_)

----------------------------------------------------------------------------
(* Records shorter than the fixed fields of their tag.                     *)

\* The files with short records hold at most MaxShortRecords records.
MaxShortRecords == 3

\* LdStNxEntry: the offset of the end of its size field, for W = 4.
kNxFixedLength == kValueOffset + 4

\* A load and a store of full length; a load that ends two bytes into its
\* address field and a store that ends three bytes into it; and a register
\* write of full length and one that ends one byte into its size field.
\* Every field read lies inside the aligned extent of its record (12 bytes
\* for the short load and store, 16 for the short register write): the low
\* byte of the little-endian field is a byte of the record, the bytes after
\* the record's length are its zero padding.
ShortRecords ==
    {StreamRecord("MT_LOAD", 14, 1, 1, 2, 0, <<>>),
     StreamRecord("MT_STORE", 13, 2, 1, 1, 0, <<>>),
     StreamRecord("MT_LOAD", 10, 1, 1, 0, 0, <<>>),
     StreamRecord("MT_STORE", 11, 2, 2, 0, 0, <<>>),
     StreamRecord("MT_PUT_REG_NX", 16, 1, 1, 2, 0, <<>>),
     StreamRecord("MT_PUT_REG_NX", 13, 2, 1, 2, 0, <<>>)}

ShortFiles == UNION {[1..n -> ShortRecords] : n \in 0..MaxShortRecords}

\* ud_file on a well-framed little-endian trace of EM_386 made of these
\* records: the reader just past the header, the builder initialised.
InitShort ==
    /\ header_ = [endianness |-> "Little", wordSize |-> 4, machineType |-> "EM_386"]
    /\ host = "Little"
    /\ data_ \in ShortFiles
    /\ length_ = End(data_)
    /\ traceFile = [magic |-> <<"4", "M">>, size |-> length_,
                    headerLength |-> HeaderFixedLength]
    /\ cur_ = HeaderAlignedLength
    /\ entryIndex_ = 0
    /\ out = NoCall
    /\ LET r == UdInitCreate(header_.machineType, header_.endianness,
                             header_.wordSize, 0)
       IN /\ trace_ = r.ud.trace_ /\ code_ = r.ud.code_ /\ text_ = r.ud.text_
          /\ regState_ = r.ud.regState_ /\ memState_ = r.ud.memState_
          /\ phase = IF r.err THEN "failed" ELSE "building"
    /\ disk = [header |-> <<>>, files |-> <<>>]
    /\ loaded = <<>>
    /\ readOf = [mem |-> <<>>, reg |-> <<>>] /\ ret = NoRet /\ vec = NoVec
    /\ PUIdle

SpecShort == InitShort /\ [][NextStream]_vars

\* C39: a record whose length field is smaller than the fixed fields of its
\* tag (TLV header, insnSeq and addr for load/store-like records, and size
\* for NX records) is rejected, and the size decoded for a record that is
\* dispatched to the visitor is at most the bytes the record has after its
\* fixed fields, never a difference that wrapped modulo 2^(8W).
C39_ShortRecordsRejected ==
    [][(phase = "building" /\ cur_ # length_) =>
        LET e == data_[RecordAt(data_, cur_)]
        IN /\ e.tag \in LdStTags /\ e.length < kValueOffset => phase' = "failed"
           /\ e.tag \in LdStNxTags /\ e.length < kNxFixedLength => phase' = "failed"
           /\ e.tag \in LdStTags /\ phase' = "building" =>
                  ValueSize(e) <= e.length - kValueOffset]_vars

----------------------------------------------------------------------------
(* The key that marks an empty slot.                                       *)

\* The test of ResolveUse on the slot FindPartialUse ends at: TRUE when it
\* takes the slot for the partial entry of useIndex.
ResolveSeesEntry(p, useIndex) ==
    p.entries[FindPartialUse(p.entries, Len(p.entries), useIndex) + 1].first # kEmpty

\* C40: find(k) and ResolveUse report no partial entry for every use index k
\* that was never set, k = 0xFFFFFFFF (the value that marks an empty slot)
\* included, and every key that was set, 0xFFFFFFFF included, is counted in
\* the load.
C40_MarkerKeyIsAnOrdinaryKey ==
    /\ \A k \in AllKeys \ DOMAIN puLast :
           /\ PUFind(puTable, k) = -1
           /\ ~ResolveSeesEntry(puTable, k)
    /\ puTable.load_ = Cardinality(DOMAIN puLast)

====
